---- MODULE Spec2Model ----
(***************************************************************************)
(* The order, product and user services of the repository as one state     *)
(* machine.  Money is counted in cents (the stores keep DECIMAL(10,2)),     *)
(* timestamps (created_at, updated_at) and password hashes are left out.    *)
(* Every await of a handler is a step of its own, so that handlers of       *)
(* different requests interleave exactly where the event loop lets them.    *)
(***************************************************************************)
EXTENDS Integers, Sequences, FiniteSets, TLC

(* ------------------------------ bounds --------------------------------- *)

\* Number of POST /api/orders requests that are ever received.
NumRequests == 2

\* Largest number of lines in the items array of a request.
MaxLines == 2

\* Largest quantity of a line (0 is the payload the schema rejects).
MaxQuantity == 2

Requests == 1..NumRequests

\* Number of POST /api/users/register requests that are ever received.
NumRegistrations == 2

Registrations == 1..NumRegistrations

\* Largest id the sequence behind products.id hands out.
MaxProductId == 6

\* User ids that requests name: 1 is a seed user, 3 has no row.
ReqUserIds == {1, 3}

\* Product ids that requests name.
ReqProductIds == {1}

\* Failures of an outbound call other than a 404 answer.
UpstreamFailures == {"unreachable", "status5xx", "malformed"}

(* ---------------------------- seed data -------------------------------- *)

SeedUsers ==
    (1 :> [email |-> "john@example.com", name |-> "John Doe"]) @@
    (2 :> [email |-> "jane@example.com", name |-> "Jane Smith"])

SeedProducts ==
    (1 :> [name |-> "Laptop", description |-> "High-performance laptop for gaming and work",
           price |-> 99999, stock |-> 10, category |-> "Electronics"]) @@
    (2 :> [name |-> "Smartphone", description |-> "Latest smartphone with advanced features",
           price |-> 69999, stock |-> 25, category |-> "Electronics"]) @@
    (3 :> [name |-> "Coffee Mug", description |-> "Ceramic coffee mug with company logo",
           price |-> 1299, stock |-> 100, category |-> "Office Supplies"]) @@
    (4 :> [name |-> "Desk Chair", description |-> "Ergonomic office chair for comfort",
           price |-> 29999, stock |-> 15, category |-> "Furniture"]) @@
    (5 :> [name |-> "Wireless Mouse", description |-> "Bluetooth wireless mouse",
           price |-> 2999, stock |-> 50, category |-> "Electronics"])

SeedOrders ==
    (1 :> [user_id |-> 1, total_amount |-> 129998, status |-> "confirmed"]) @@
    (2 :> [user_id |-> 2, total_amount |-> 4298, status |-> "pending"])

SeedOrderItems ==
    (1 :> [order_id |-> 1, product_id |-> 1, quantity |-> 1, price |-> 99999,
           product_name |-> "Laptop"]) @@
    (2 :> [order_id |-> 1, product_id |-> 5, quantity |-> 10, price |-> 2999,
           product_name |-> "Wireless Mouse"]) @@
    (3 :> [order_id |-> 2, product_id |-> 3, quantity |-> 1, price |-> 1299,
           product_name |-> "Coffee Mug"]) @@
    (4 :> [order_id |-> 2, product_id |-> 5, quantity |-> 1, price |-> 2999,
           product_name |-> "Wireless Mouse"])

MaxKey(f) == IF DOMAIN f = {} THEN 0 ELSE CHOOSE k \in DOMAIN f : \A j \in DOMAIN f : j <= k

(* ------------------------------- state --------------------------------- *)

VARIABLES
    users,        \* user service table: id -> row
    products,     \* product service table: id -> row
    orders,       \* order service, committed rows of orders: id -> row
    order_items,  \* order service, committed rows of order_items: id -> row
    orderSeq,     \* last value of the sequence behind orders.id
    itemSeq,      \* last value of the sequence behind order_items.id
    req,          \* the POST /api/orders handlers: request -> local state
    prodResp,     \* the last answer of the product service to a write
    productSeq,   \* last value of the sequence behind products.id
    userSeq,      \* last value of the sequence behind users.id
    reg,          \* the POST /api/users/register handlers: registration -> local state
    userResp,     \* the last answer of the user service to PUT or DELETE /api/users/:id
    gw,           \* the gateway's handling of the request it has in hand
    down,         \* the backends that cannot be reached at present
    orderResp,    \* the last answer of the order service to a PUT or DELETE
    rd            \* the handler of the GET requests of the order service: local state

vars == <<users, products, orders, order_items, orderSeq, itemSeq, req, prodResp,
          productSeq, userSeq, reg, userResp, gw, down, orderResp, rd>>

NoResp == [status |-> 0, error |-> "", id |-> 0, product |-> "", available |-> 0,
           requested |-> 0, order |-> <<>>]

Answer(status, error) == [NoResp EXCEPT !.status = status, !.error = error]

\* Answers of the product service: status, error text, the product returned.
ProdAnswer(status, error, product) == [status |-> status, error |-> error, product |-> product]

NoProdResp == ProdAnswer(0, "", <<>>)

\* Local state of a handler that has not received its request yet.  caught is the
\* error object of the catch clause that ended the handler ("" when none did).
IdleRequest ==
    [pc |-> "idle", userId |-> 0, items |-> <<>>, idx |-> 0, productDetails |-> <<>>,
     totalAmount |-> 0, client |-> FALSE, order |-> <<>>, txItems |-> <<>>,
     orderItems |-> <<>>, caught |-> "", resp |-> NoResp]

\* Answers of the user service: status, error text, the user returned.
UserAnswer(status, error, user) == [status |-> status, error |-> error, user |-> user]

NoUserResp == UserAnswer(0, "", <<>>)

\* Local state of a register handler that has not received its request yet.
IdleRegistration == [pc |-> "idle", email |-> "", name |-> "", resp |-> NoUserResp]

\* The gateway with no request in hand.  stream is what is still unread on the
\* incoming request, sent is what a backend has received from the proxy.
IdleGateway ==
    [pc |-> "idle", method |-> "", path |-> <<>>, body |-> <<>>, stream |-> <<>>,
     parsed |-> <<>>, backend |-> "", sent |-> <<>>, attempts |-> 0,
     status |-> 0, error |-> ""]

\* Answers to the reads of the order service: status, error text, the orders
\* of the body (one for GET /api/orders/:id).
ReadAnswer(status, error, body) == [status |-> status, error |-> error, body |-> body]

\* The handler of the reads with no request in hand.  rows are the rows of
\* orders the first query returned, items the rows of order_items returned for
\* rows[idx], out the orders built so far.
IdleReader ==
    [pc |-> "idle", kind |-> "", id |-> 0, rows |-> <<>>, idx |-> 0, items |-> <<>>,
     out |-> <<>>, resp |-> ReadAnswer(0, "", <<>>)]

Init ==
    /\ users = SeedUsers
    /\ products = SeedProducts
    /\ orders = SeedOrders
    /\ order_items = SeedOrderItems
    /\ orderSeq = MaxKey(SeedOrders)
    /\ itemSeq = MaxKey(SeedOrderItems)
    /\ req = [r \in Requests |-> IdleRequest]
    /\ prodResp = NoProdResp
    /\ productSeq = MaxKey(SeedProducts)
    /\ userSeq = MaxKey(SeedUsers)
    /\ reg = [g \in Registrations |-> IdleRegistration]
    /\ userResp = NoUserResp
    /\ gw = IdleGateway
    /\ down = {}
    /\ orderResp = NoResp
    /\ rd = IdleReader

(* --------------------------- product service --------------------------- *)

\* getProduct: the answer of GET /api/products/:id.
GetProduct(id) ==
    IF id \in DOMAIN products
    THEN [status |-> 200, product |-> <<products[id]>>]
    ELSE [status |-> 404, product |-> <<>>]

\* ShouldBindJSON into UpdateProductRequest: a key the body lacks leaves the
\* field at the zero value of its Go type.
BindUpdateProduct(body) ==
    [Name        |-> IF "name" \in DOMAIN body THEN body["name"] ELSE "",
     Description |-> IF "description" \in DOMAIN body THEN body["description"] ELSE "",
     Price       |-> IF "price" \in DOMAIN body THEN body["price"] ELSE 0,
     Stock       |-> IF "stock" \in DOMAIN body THEN body["stock"] ELSE 0,
     Category    |-> IF "category" \in DOMAIN body THEN body["category"] ELSE ""]

\* The guard of the stock column in the dynamic SET list.
StockSupplied(r) == r.Stock >= 0

\* The columns the dynamic SET list of updateProduct names.
UpdateColumns(r) ==
    (IF r.Name # "" THEN {"name"} ELSE {}) \cup
    (IF r.Description # "" THEN {"description"} ELSE {}) \cup
    (IF r.Price > 0 THEN {"price"} ELSE {}) \cup
    (IF StockSupplied(r) THEN {"stock"} ELSE {}) \cup
    (IF r.Category # "" THEN {"category"} ELSE {})

\* The row after UPDATE products SET <columns> has been applied to it.
ApplyUpdate(row, r) ==
    LET cols == UpdateColumns(r) IN
    [name        |-> IF "name" \in cols THEN r.Name ELSE row.name,
     description |-> IF "description" \in cols THEN r.Description ELSE row.description,
     price       |-> IF "price" \in cols THEN r.Price ELSE row.price,
     stock       |-> IF "stock" \in cols THEN r.Stock ELSE row.stock,
     category    |-> IF "category" \in cols THEN r.Category ELSE row.category]

\* CHECK (price > 0), CHECK (stock >= 0) of the products table.
ProductRowOk(row) == row.price > 0 /\ row.stock >= 0

\* The update with neither the guards of the handler nor the CHECKs of the
\* table: the row takes every bound field as it is.
UpdateProductUnchecked(id, body, dbOk) ==
    LET r == BindUpdateProduct(body) IN
    /\ products' = [i \in DOMAIN products |->
                       IF i = id
                       THEN [name |-> r.Name, description |-> r.Description, price |-> r.Price,
                             stock |-> r.Stock, category |-> r.Category]
                       ELSE products[i]]
    /\ prodResp' = IF id \in DOMAIN products
                   THEN ProdAnswer(200, "", <<products'[id]>>)
                   ELSE ProdAnswer(404, "Product not found", <<>>)
    /\ UNCHANGED <<users, userSeq, reg, userResp, productSeq, gw, down, orderResp, orders,
                   order_items, orderSeq, itemSeq, req, rd>>

\* The UPDATE statement without its WHERE clause: every row takes the columns.
UpdateProductNoWhere(id, body, dbOk) ==
    LET r == BindUpdateProduct(body) IN
    /\ products' = [i \in DOMAIN products |-> ApplyUpdate(products[i], r)]
    /\ prodResp' = IF id \in DOMAIN products
                   THEN ProdAnswer(200, "", <<products'[id]>>)
                   ELSE ProdAnswer(404, "Product not found", <<>>)
    /\ UNCHANGED <<users, userSeq, reg, userResp, productSeq, gw, down, orderResp, orders,
                   order_items, orderSeq, itemSeq, req, rd>>

\* PUT /api/products/:id with a body that binds.
UpdateProduct(id, body, dbOk) ==
    LET r == BindUpdateProduct(body) IN
    /\ IF UpdateColumns(r) = {}
       THEN /\ prodResp' = ProdAnswer(400, "No fields to update", <<>>)
            /\ UNCHANGED products
       ELSE IF ~dbOk \/ (id \in DOMAIN products /\ ~ProductRowOk(ApplyUpdate(products[id], r)))
       THEN /\ prodResp' = ProdAnswer(500, "Failed to update product", <<>>)
            /\ UNCHANGED products
       ELSE IF id \notin DOMAIN products
       THEN /\ prodResp' = ProdAnswer(404, "Product not found", <<>>)
            /\ UNCHANGED products
       ELSE /\ products' = [products EXCEPT ![id] = ApplyUpdate(products[id], r)]
            /\ prodResp' = ProdAnswer(200, "", <<products'[id]>>)
    /\ UNCHANGED <<users, userSeq, reg, userResp, productSeq, gw, down, orderResp, orders,
                   order_items, orderSeq, itemSeq, req, rd>>

\* PUT /api/products/:id with a body ShouldBindJSON refuses.
UpdateProductBadJSON(id) ==
    /\ prodResp' = ProdAnswer(400, "bind error", <<>>)
    /\ UNCHANGED <<users, userSeq, reg, userResp, productSeq, gw, down, orderResp, products,
                   orders, order_items, orderSeq, itemSeq, req, rd>>

\* deleteProduct without the test of rowsAffected.
DeleteProductAlwaysOk(id, dbOk) ==
    /\ products' = [i \in DOMAIN products \ {id} |-> products[i]]
    /\ prodResp' = ProdAnswer(200, "", <<>>)
    /\ UNCHANGED <<users, userSeq, reg, userResp, productSeq, gw, down, orderResp, orders,
                   order_items, orderSeq, itemSeq, req, rd>>

\* DELETE /api/products/:id.
DeleteProduct(id, dbOk) ==
    /\ IF ~dbOk
       THEN /\ prodResp' = ProdAnswer(500, "Failed to delete product", <<>>)
            /\ UNCHANGED products
       ELSE IF id \notin DOMAIN products
       THEN /\ prodResp' = ProdAnswer(404, "Product not found", <<>>)
            /\ UNCHANGED products
       ELSE /\ products' = [i \in DOMAIN products \ {id} |-> products[i]]
            /\ prodResp' = ProdAnswer(200, "", <<>>)
    /\ UNCHANGED <<users, userSeq, reg, userResp, productSeq, gw, down, orderResp, orders,
                   order_items, orderSeq, itemSeq, req, rd>>

\* ShouldBindJSON into CreateProductRequest: a key the body lacks leaves the
\* field at the zero value of its Go type.
BindCreateProduct(body) ==
    [Name        |-> IF "name" \in DOMAIN body THEN body["name"] ELSE "",
     Description |-> IF "description" \in DOMAIN body THEN body["description"] ELSE "",
     Price       |-> IF "price" \in DOMAIN body THEN body["price"] ELSE 0,
     Stock       |-> IF "stock" \in DOMAIN body THEN body["stock"] ELSE 0,
     Category    |-> IF "category" \in DOMAIN body THEN body["category"] ELSE ""]

\* The binding tags of CreateProductRequest, field by field: "" when the tags of
\* the field pass, otherwise the tag that fails.  The tag "required" fails on
\* the zero value of the field's type ("" for a string, 0 for a number).
NameTag(r) == IF r.Name = "" THEN "required" ELSE ""

DescriptionTag(r) == IF r.Description = "" THEN "required" ELSE ""

PriceTagRequiredOnly(r) == IF r.Price = 0 THEN "required" ELSE ""

PriceTag(r) == IF r.Price = 0 THEN "required" ELSE IF ~(r.Price > 0) THEN "gt" ELSE ""

StockTag(r) == IF r.Stock = 0 THEN "required" ELSE IF ~(r.Stock >= 0) THEN "gte" ELSE ""

CategoryTag(r) == IF r.Category = "" THEN "required" ELSE ""

\* The error of ShouldBindJSON: "" when every field passes.  The validator's
\* message lists every failing field; the model keeps the first one.
CreateBindingError(r) ==
    IF NameTag(r) # "" THEN "Name failed on the 'required' tag"
    ELSE IF DescriptionTag(r) # "" THEN "Description failed on the 'required' tag"
    ELSE IF PriceTag(r) = "required" THEN "Price failed on the 'required' tag"
    ELSE IF PriceTag(r) = "gt" THEN "Price failed on the 'gt' tag"
    ELSE IF StockTag(r) = "required" THEN "Stock failed on the 'required' tag"
    ELSE IF StockTag(r) = "gte" THEN "Stock failed on the 'gte' tag"
    ELSE IF CategoryTag(r) # "" THEN "Category failed on the 'required' tag"
    ELSE ""

\* The row INSERT INTO products writes for a bound request.
NewProductRow(r) ==
    [name |-> r.Name, description |-> r.Description, price |-> r.Price,
     stock |-> r.Stock, category |-> r.Category]

\* POST /api/products with a body that is JSON of the right types.  An INSERT
\* that a CHECK refuses has taken its id from the sequence all the same.
CreateProduct(body, dbOk) ==
    LET r == BindCreateProduct(body)
        error == CreateBindingError(r)
        id == productSeq + 1 IN
    /\ (error = "" /\ dbOk) => productSeq < MaxProductId
    /\ IF error # ""
       THEN /\ prodResp' = ProdAnswer(400, error, <<>>)
            /\ UNCHANGED <<products, productSeq, rd>>
       ELSE IF ~dbOk
       THEN /\ prodResp' = ProdAnswer(500, "Failed to create product", <<>>)
            /\ UNCHANGED <<products, productSeq, rd>>
       ELSE IF ~ProductRowOk(NewProductRow(r))
       THEN /\ prodResp' = ProdAnswer(500, "Failed to create product", <<>>)
            /\ productSeq' = id
            /\ UNCHANGED products
       ELSE /\ products' = (id :> NewProductRow(r)) @@ products
            /\ productSeq' = id
            /\ prodResp' = ProdAnswer(201, "", <<products'[id]>>)
    /\ UNCHANGED <<users, userSeq, reg, userResp, gw, down, orderResp, orders, order_items,
                   orderSeq, itemSeq, req, rd>>

\* POST /api/products with a body ShouldBindJSON cannot decode.
CreateProductBadJSON ==
    /\ prodResp' = ProdAnswer(400, "bind error", <<>>)
    /\ UNCHANGED <<users, userSeq, reg, userResp, productSeq, gw, down, orderResp, products,
                   orders, order_items, orderSeq, itemSeq, req, rd>>

(* ----------------------------- user service ---------------------------- *)

\* GET /api/users/:id: the status of the answer.
GetUser(id) ==
    IF id \in DOMAIN users
    THEN [status |-> 200, user |-> <<users[id]>>]
    ELSE [status |-> 404, user |-> <<>>]

\* Joi.string().email(): the addresses of the model that are well formed.
WellFormedEmails == {"john@example.com", "jane@example.com", "new@example.com"}

IsEmail(e) == e \in WellFormedEmails

\* userSchema.validate: "" when the payload passes, otherwise the message of
\* the first rule that fails.
userSchema(email, password, name) ==
    IF ~IsEmail(email) THEN "\"email\" must be a valid email"
    ELSE IF Len(password) < 6 THEN "\"password\" length must be at least 6 characters long"
    ELSE IF Len(name) < 2 THEN "\"name\" length must be at least 2 characters long"
    ELSE ""

\* The register handler answers and ends.
RegRespond(g, resp) == [reg EXCEPT ![g].pc = "done", ![g].resp = resp]

UserInternalError == UserAnswer(500, "Internal server error", <<>>)

\* The UNIQUE constraint on users.email switched off.
EmailTakenNever(email, id) == FALSE

\* UNIQUE on users.email: another row than id holds the address.
EmailTaken(email, id) == \E u \in DOMAIN users : u # id /\ users[u].email = email

\* POST /api/users/register arrives: the payload is validated (lines 69-76).
\* The registrations are numbered in the order of their arrival.
ReceiveRegister(g, email, password, name) ==
    /\ reg[g].pc = "idle"
    /\ \A q \in Registrations : q < g => reg[q].pc # "idle"
    /\ LET error == userSchema(email, password, name)
           got == [reg EXCEPT ![g].email = email, ![g].name = name] IN
       IF error # ""
       THEN reg' = [got EXCEPT ![g].pc = "done", ![g].resp = UserAnswer(400, error, <<>>)]
       ELSE reg' = [got EXCEPT ![g].pc = "select"]
    /\ UNCHANGED <<users, userSeq, userResp, productSeq, gw, down, orderResp, products, orders, order_items,
                   orderSeq, itemSeq, req, prodResp, rd>>

\* SELECT id FROM users WHERE email = $1 has answered (lines 78-82).
SelectExisting(g, ok) ==
    /\ reg[g].pc = "select"
    /\ IF ~ok THEN reg' = RegRespond(g, UserInternalError)
       ELSE IF \E u \in DOMAIN users : users[u].email = reg[g].email
       THEN reg' = RegRespond(g, UserAnswer(409, "User already exists", <<>>))
       ELSE reg' = [reg EXCEPT ![g].pc = "hash"]
    /\ UNCHANGED <<users, userSeq, userResp, productSeq, gw, down, orderResp, products, orders, order_items,
                   orderSeq, itemSeq, req, prodResp, rd>>

\* bcrypt.hash has answered (line 85).
HashPassword(g) ==
    /\ reg[g].pc = "hash"
    /\ reg' = [reg EXCEPT ![g].pc = "insert"]
    /\ UNCHANGED <<users, userSeq, userResp, productSeq, gw, down, orderResp, products, orders, order_items,
                   orderSeq, itemSeq, req, prodResp, rd>>

\* INSERT INTO users ... RETURNING has answered (lines 88-104).  An insert the
\* UNIQUE constraint refuses has taken its id from the sequence all the same.
InsertUser(g, ok) ==
    LET id == userSeq + 1
        row == [email |-> reg[g].email, name |-> reg[g].name] IN
    /\ reg[g].pc = "insert"
    /\ IF ~ok
       THEN /\ reg' = RegRespond(g, UserInternalError)
            /\ UNCHANGED <<users, userSeq, rd>>
       ELSE IF EmailTaken(row.email, id)
       THEN /\ reg' = RegRespond(g, UserInternalError)
            /\ userSeq' = id
            /\ UNCHANGED users
       ELSE /\ users' = (id :> row) @@ users
            /\ userSeq' = id
            /\ reg' = RegRespond(g, UserAnswer(201, "", <<[id |-> id] @@ row>>))
    /\ UNCHANGED <<userResp, productSeq, gw, down, orderResp, products, orders, order_items, orderSeq,
                   itemSeq, req, prodResp, rd>>

\* The test taking every key the body holds for supplied.
TruthyPresent(body, k) == k \in DOMAIN body

\* JavaScript truthiness of a body field: absent, undefined and "" are falsy.
Truthy(body, k) == k \in DOMAIN body /\ body[k] # ""

\* The columns the SET list of PUT /api/users/:id names (lines 208-220).
UserUpdateColumns(body) == {k \in {"name", "email"} : Truthy(body, k)}

\* The row after UPDATE users SET <columns> has been applied to it.
ApplyUserUpdate(row, body) ==
    [email |-> IF "email" \in UserUpdateColumns(body) THEN body["email"] ELSE row.email,
     name  |-> IF "name" \in UserUpdateColumns(body) THEN body["name"] ELSE row.name]

\* PUT /api/users/:id (lines 199-247); the handler has a single await.
UpdateUser(id, body, dbOk) ==
    /\ IF UserUpdateColumns(body) = {}
       THEN /\ userResp' = UserAnswer(400, "Name or email is required", <<>>)
            /\ UNCHANGED users
       ELSE IF ~dbOk
       THEN /\ userResp' = UserInternalError
            /\ UNCHANGED users
       ELSE IF id \notin DOMAIN users
       THEN /\ userResp' = UserAnswer(404, "User not found", <<>>)
            /\ UNCHANGED users
       ELSE IF EmailTaken(ApplyUserUpdate(users[id], body).email, id)
       THEN /\ userResp' = UserInternalError
            /\ UNCHANGED users
       ELSE /\ users' = [users EXCEPT ![id] = ApplyUserUpdate(users[id], body)]
            /\ userResp' = UserAnswer(200, "", <<[id |-> id] @@ users'[id]>>)
    /\ UNCHANGED <<userSeq, reg, productSeq, gw, down, orderResp, products, orders, order_items, orderSeq,
                   itemSeq, req, prodResp, rd>>

\* DELETE /api/users/:id (lines 250-264).
DeleteUser(id, dbOk) ==
    /\ IF ~dbOk
       THEN /\ userResp' = UserInternalError
            /\ UNCHANGED users
       ELSE IF id \notin DOMAIN users
       THEN /\ userResp' = UserAnswer(404, "User not found", <<>>)
            /\ UNCHANGED users
       ELSE /\ users' = [u \in DOMAIN users \ {id} |-> users[u]]
            /\ userResp' = UserAnswer(200, "", <<>>)
    /\ UNCHANGED <<userSeq, reg, productSeq, gw, down, orderResp, products, orders, order_items, orderSeq,
                   itemSeq, req, prodResp, rd>>

(* ------------------------------- gateway ------------------------------- *)

Backends == {"user", "product", "order"}

\* The mount path that matches a request path (a sequence of segments): the
\* backend of the first app.use(...) whose prefix the path has, "" when none.
Mount(path) ==
    IF Len(path) >= 2 /\ path[1] = "api" /\ path[2] = "users" THEN "user"
    ELSE IF Len(path) >= 2 /\ path[1] = "api" /\ path[2] = "products" THEN "product"
    ELSE IF Len(path) >= 2 /\ path[1] = "api" /\ path[2] = "orders" THEN "order"
    ELSE ""

\* The error text of every onError handler being that of the first one.
ServiceUnavailableUser(backend) == "User service unavailable"

\* The error text of the onError handler of a backend.
ServiceUnavailable(backend) ==
    IF backend = "user" THEN "User service unavailable"
    ELSE IF backend = "product" THEN "Product service unavailable"
    ELSE "Order service unavailable"

\* Bodies that express.json() can parse.
WellFormedJson == {<<"{\"name\":\"Gadget\"}">>}

\* The gateway answers and is done with the request.
GwRespond(status, error) == [gw EXCEPT !.pc = "done", !.status = status, !.error = error]

\* A request arrives at the gateway; its body, if any, is on the stream.
GwReceive(method, path, body) ==
    /\ gw.pc \in {"idle", "done"}
    /\ gw' = [IdleGateway EXCEPT !.pc = "json", !.method = method, !.path = path,
                                 !.body = body, !.stream = body]
    /\ UNCHANGED <<users, userSeq, reg, userResp, productSeq, down, orderResp, products, orders,
                   order_items, orderSeq, itemSeq, req, prodResp, rd>>

\* app.use(express.json()) (line 17): a JSON body is read off the stream and
\* parsed into req.body; a body that does not parse goes to the error handler
\* (lines 110-113).
GwJson ==
    /\ gw.pc = "json"
    /\ IF gw.stream = <<>>
       THEN gw' = [gw EXCEPT !.pc = "route"]
       ELSE IF gw.stream \notin WellFormedJson
       THEN gw' = [GwRespond(500, "Internal server error") EXCEPT !.stream = <<>>]
       ELSE gw' = [gw EXCEPT !.pc = "route", !.parsed = gw.stream, !.stream = <<>>]
    /\ UNCHANGED <<users, userSeq, reg, userResp, productSeq, down, orderResp, products, orders,
                   order_items, orderSeq, itemSeq, req, prodResp, rd>>

\* The request the proxy sends to the backend: method and path (originalUrl,
\* the pathRewrite rules map each prefix to itself) of the incoming request,
\* and for body what the incoming stream still holds, which is piped through.
Forwarded == [method |-> gw.method, path |-> gw.path, body |-> gw.stream]

\* The routes in the order of their registration (lines 31-107): the health
\* check, the service map, the three proxies, the 404 handler.  A proxy opens
\* one connection to its target; when that fails its onError handler answers.
\* A backend that was promised a body and gets none waits for it.
GwRoute ==
    /\ gw.pc = "route"
    /\ IF gw.method = "GET" /\ gw.path \in {<<"health">>, <<>>}
       THEN gw' = GwRespond(200, "")
       ELSE IF Mount(gw.path) = ""
       THEN gw' = GwRespond(404, "Route not found")
       ELSE IF Mount(gw.path) \in down
       THEN gw' = [GwRespond(503, ServiceUnavailable(Mount(gw.path)))
                      EXCEPT !.attempts = gw.attempts + 1]
       ELSE gw' = [gw EXCEPT !.pc = IF gw.body # <<>> /\ gw.stream = <<>>
                                    THEN "starved" ELSE "upstream",
                             !.backend = Mount(gw.path),
                             !.sent = <<Forwarded>>,
                             !.attempts = gw.attempts + 1]
    /\ UNCHANGED <<users, userSeq, reg, userResp, productSeq, down, orderResp, products, orders,
                   order_items, orderSeq, itemSeq, req, prodResp, rd>>

\* The backend answers and the answer is relayed, or the connection breaks and
\* the onError handler answers.
GwUpstream(ok, status) ==
    /\ gw.pc = "upstream"
    /\ gw' = IF ok THEN GwRespond(status, "")
             ELSE GwRespond(503, ServiceUnavailable(gw.backend))
    /\ UNCHANGED <<users, userSeq, reg, userResp, productSeq, down, orderResp, products, orders,
                   order_items, orderSeq, itemSeq, req, prodResp, rd>>

\* The backend has waited in vain for the body: it gives up with 408, which is
\* relayed, or the connection is closed and the onError handler answers.  (As
\* long as neither happens the client gets no answer.)
GwStarved(closed) ==
    /\ gw.pc = "starved"
    /\ gw' = IF closed THEN GwRespond(503, ServiceUnavailable(gw.backend))
             ELSE GwRespond(408, "")
    /\ UNCHANGED <<users, userSeq, reg, userResp, productSeq, down, orderResp, products, orders,
                   order_items, orderSeq, itemSeq, req, prodResp, rd>>

\* A backend stops being reachable, or is reachable again.
Fail(backend) ==
    /\ backend \notin down
    /\ down' = down \cup {backend}
    /\ UNCHANGED <<users, userSeq, reg, userResp, productSeq, gw, orderResp, products, orders,
                   order_items, orderSeq, itemSeq, req, prodResp, rd>>

Recover(backend) ==
    /\ backend \in down
    /\ down' = down \ {backend}
    /\ UNCHANGED <<users, userSeq, reg, userResp, productSeq, gw, orderResp, products, orders,
                   order_items, orderSeq, itemSeq, req, prodResp, rd>>

(* ---------------------------- order service ---------------------------- *)

\* orderSchema.validate: "" when the payload passes, otherwise the message of
\* the first rule that fails (userId, then the lines in order, then min(1)).
FirstBadLine(items) ==
    IF \E i \in 1..Len(items) : ~(items[i].productId > 0 /\ items[i].quantity > 0)
    THEN CHOOSE i \in 1..Len(items) :
            /\ ~(items[i].productId > 0 /\ items[i].quantity > 0)
            /\ \A j \in 1..(i - 1) : items[j].productId > 0 /\ items[j].quantity > 0
    ELSE 0

orderSchema(userId, items) ==
    IF ~(userId > 0) THEN "\"userId\" must be a positive number"
    ELSE IF FirstBadLine(items) # 0
         THEN IF ~(items[FirstBadLine(items)].productId > 0)
              THEN "\"items[i].productId\" must be a positive number"
              ELSE "\"items[i].quantity\" must be a positive number"
    ELSE IF Len(items) < 1 THEN "\"items\" must contain at least 1 items"
    ELSE ""

\* The reduce with the quantity forgotten: the sum of the unit prices.
RECURSIVE TotalAmountNoQuantity(_, _)
TotalAmountNoQuantity(items, productDetails) ==
    IF items = <<>> THEN 0
    ELSE TotalAmountNoQuantity(Tail(items), productDetails)
         + productDetails[Head(items).productId].price

\* items.reduce(...): the sum over the lines of productDetails[productId].price * quantity.
RECURSIVE TotalAmount(_, _)
TotalAmount(items, productDetails) ==
    IF items = <<>> THEN 0
    ELSE TotalAmount(Tail(items), productDetails)
         + productDetails[Head(items).productId].price * Head(items).quantity

\* CHECK (total_amount > 0) and CHECK (status IN ...) of the orders table.
OrderStatuses == {"pending", "confirmed", "shipped", "delivered", "cancelled"}

OrderRowOk(row) == row.total_amount > 0 /\ row.status \in OrderStatuses

\* CHECK (quantity > 0) and CHECK (price > 0) of the order_items table.
ItemRowOk(row) == row.quantity > 0 /\ row.price > 0

\* DELETE /api/orders/:id: the service has no such route, the request falls
\* through to the 404 handler.
DeleteOrder(id) ==
    /\ orderResp' = Answer(404, "Route not found")
    /\ UNCHANGED <<users, userSeq, reg, userResp, productSeq, gw, down, products, orders,
                   order_items, orderSeq, itemSeq, req, prodResp, rd>>

\* The handler answers and ends.
Respond(r, resp, caught) ==
    [req EXCEPT ![r].pc = "done", ![r].resp = resp, ![r].caught = caught]

InternalError == Answer(500, "Internal server error")

\* A handler that asks the pool for its connection as soon as the payload has
\* passed the schema, before the lookups.
ReceiveOrderConnectFirst(r, userId, items) ==
    /\ req[r].pc = "idle"
    /\ \A q \in Requests : q < r => req[q].pc # "idle"
    /\ orderSchema(userId, items) = ""
    /\ req' = [req EXCEPT ![r].userId = userId, ![r].items = items, ![r].client = TRUE,
                          ![r].pc = "userLookup"]
    /\ UNCHANGED <<users, userSeq, reg, userResp, productSeq, gw, down, orderResp, products,
                   orders, order_items, orderSeq, itemSeq, prodResp, rd>>

\* POST /api/orders arrives: the payload is validated (lines 74-81).  The
\* requests are numbered in the order of their arrival.
ReceiveOrder(r, userId, items) ==
    /\ req[r].pc = "idle"
    /\ \A q \in Requests : q < r => req[q].pc # "idle"
    /\ LET error == orderSchema(userId, items)
           got == [req EXCEPT ![r].userId = userId, ![r].items = items] IN
       IF error # ""
       THEN req' = [got EXCEPT ![r].pc = "done", ![r].resp = Answer(400, error)]
       ELSE req' = [got EXCEPT ![r].pc = "userLookup"]
    /\ UNCHANGED <<users, userSeq, reg, userResp, productSeq, gw, down, orderResp, products,
                   orders, order_items, orderSeq, itemSeq, prodResp, rd>>

\* What the catch clause around an outbound call receives: "" when the call
\* returned a 2xx answer, "status404" for an answer with status 404, "upstream"
\* for every other failure (no answer, another status, an answer without the
\* expected object).
Caught(outcome, answer) ==
    IF outcome # "answered" THEN "upstream"
    ELSE IF answer.status = 404 THEN "status404"
    ELSE ""

\* The test of the catch clauses failing for every error.
IsNotFoundNever(caught) == FALSE

\* axios.isAxiosError(e) && e.response?.status === 404 (lines 87 and 112).
IsNotFound(caught) == caught = "status404"

\* The handler without the return of line 88: after the 400 it goes on.
UserLookupNoReturn(r, outcome) ==
    /\ req[r].pc = "userLookup"
    /\ LET caught == Caught(outcome, GetUser(req[r].userId)) IN
       IF caught = ""
       THEN req' = [req EXCEPT ![r].pc = "productLookup", ![r].idx = 1]
       ELSE IF IsNotFound(caught)
       THEN req' = [req EXCEPT ![r].pc = "productLookup", ![r].idx = 1,
                               ![r].resp = Answer(400, "User not found"),
                               ![r].caught = caught]
       ELSE req' = Respond(r, InternalError, caught)
    /\ UNCHANGED <<users, userSeq, reg, userResp, productSeq, gw, down, orderResp, products,
                   orders, order_items, orderSeq, itemSeq, prodResp, rd>>

\* The call to the user service returns (lines 83-91).  outcome is "answered"
\* when the user service answers from its table, otherwise the failure.
UserLookup(r, outcome) ==
    /\ req[r].pc = "userLookup"
    /\ LET caught == Caught(outcome, GetUser(req[r].userId)) IN
       IF caught = ""
       THEN req' = [req EXCEPT ![r].pc = "productLookup", ![r].idx = 1]
       ELSE IF IsNotFound(caught)
       THEN req' = Respond(r, Answer(400, "User not found"), caught)
       ELSE req' = Respond(r, InternalError, caught)
    /\ UNCHANGED <<users, userSeq, reg, userResp, productSeq, gw, down, orderResp, products,
                   orders, order_items, orderSeq, itemSeq, prodResp, rd>>

\* The quantity of product p in the committed item rows written by POST /api/orders.
RECURSIVE SumQuantity(_)
SumQuantity(S) ==
    IF S = {} THEN 0
    ELSE LET i == CHOOSE x \in S : TRUE IN order_items[i].quantity + SumQuantity(S \ {i})

SoldQuantity(p) ==
    SumQuantity({i \in DOMAIN order_items :
                    /\ order_items[i].product_id = p
                    /\ order_items[i].order_id \notin DOMAIN SeedOrders})

\* A stock test that counts what has been ordered already.
InsufficientStockReserving(product, item) ==
    product.stock < item.quantity + SoldQuantity(item.productId)

\* The stock test with the comparison lost: no quantity is ever too large.
InsufficientStockOff(product, item) == product.stock < 0

\* The stock test of a line against the product returned for it (line 100).
InsufficientStock(product, item) == product.stock < item.quantity

\* After the loop over the lines: the total is computed and the handler asks
\* the pool for a connection (lines 119-125).
AfterLookups(r, productDetails) ==
    [req EXCEPT ![r].productDetails = productDetails,
                ![r].totalAmount = TotalAmount(req[r].items, productDetails),
                ![r].idx = 0,
                ![r].pc = "connect"]

\* A stock test that adds up the lines of the request read so far that name
\* the same product.
ProductLookupPerProduct(r, outcome) ==
    /\ req[r].pc = "productLookup"
    /\ LET item == req[r].items[req[r].idx]
           answer == GetProduct(item.productId)
           caught == Caught(outcome, answer)
           asked == {n \in 1..req[r].idx : req[r].items[n].productId = item.productId} IN
       IF caught = ""
       THEN LET product == answer.product[1]
                productDetails ==
                    (item.productId :> [price |-> product.price, name |-> product.name,
                                        stock |-> product.stock]) @@ req[r].productDetails IN
            IF product.stock < item.quantity * Cardinality(asked)
            THEN req' = Respond(r, [Answer(400, "Insufficient stock for product") EXCEPT
                                       !.product = product.name,
                                       !.available = product.stock,
                                       !.requested = item.quantity], "")
            ELSE IF req[r].idx < Len(req[r].items)
            THEN req' = [req EXCEPT ![r].productDetails = productDetails,
                                    ![r].idx = req[r].idx + 1]
            ELSE req' = AfterLookups(r, productDetails)
       ELSE IF IsNotFound(caught)
       THEN req' = Respond(r, [Answer(400, "Product with ID not found") EXCEPT
                                   !.id = item.productId], caught)
       ELSE req' = Respond(r, InternalError, caught)
    /\ UNCHANGED <<users, userSeq, reg, userResp, productSeq, gw, down, orderResp, products,
                   orders, order_items, orderSeq, itemSeq, prodResp, rd>>

\* A loop that logs the failure of a lookup and goes on with the next line.
ProductLookupSkipping(r, outcome) ==
    /\ req[r].pc = "productLookup"
    /\ Caught(outcome, GetProduct(req[r].items[req[r].idx].productId)) # ""
    /\ req[r].idx < Len(req[r].items)
    /\ req' = [req EXCEPT ![r].idx = req[r].idx + 1]
    /\ UNCHANGED <<users, userSeq, reg, userResp, productSeq, gw, down, orderResp, products,
                   orders, order_items, orderSeq, itemSeq, prodResp, rd>>

\* The call to the product service for line idx returns (lines 95-117).
ProductLookup(r, outcome) ==
    /\ req[r].pc = "productLookup"
    /\ LET item == req[r].items[req[r].idx]
           answer == GetProduct(item.productId)
           caught == Caught(outcome, answer) IN
       IF caught = ""
       THEN LET product == answer.product[1]
                productDetails ==
                    (item.productId :> [price |-> product.price, name |-> product.name,
                                        stock |-> product.stock]) @@ req[r].productDetails IN
            IF InsufficientStock(product, item)
            THEN req' = Respond(r, [Answer(400, "Insufficient stock for product") EXCEPT
                                       !.product = product.name,
                                       !.available = product.stock,
                                       !.requested = item.quantity], "")
            ELSE IF req[r].idx < Len(req[r].items)
            THEN req' = [req EXCEPT ![r].productDetails = productDetails,
                                    ![r].idx = req[r].idx + 1]
            ELSE req' = AfterLookups(r, productDetails)
       ELSE IF IsNotFound(caught)
       THEN req' = Respond(r, [Answer(400, "Product with ID not found") EXCEPT
                                   !.id = item.productId], caught)
       ELSE req' = Respond(r, InternalError, caught)
    /\ UNCHANGED <<users, userSeq, reg, userResp, productSeq, gw, down, orderResp, products,
                   orders, order_items, orderSeq, itemSeq, prodResp, rd>>

\* pool.connect() returns (line 125); a failure is caught by the outer catch.
Connect(r, ok) ==
    /\ req[r].pc = "connect"
    /\ IF ok
       THEN req' = [req EXCEPT ![r].client = TRUE, ![r].pc = "begin"]
       ELSE req' = Respond(r, InternalError, "db")
    /\ UNCHANGED <<users, userSeq, reg, userResp, productSeq, gw, down, orderResp, products,
                   orders, order_items, orderSeq, itemSeq, prodResp, rd>>

\* An inner catch that swallows the error: the handler runs off the end of
\* the try block and sends nothing.
ToRollbackSilent(r) == [req EXCEPT ![r].pc = "silent", ![r].caught = "db"]

\* A statement of the transaction failed: the inner catch takes over.
ToRollback(r) == [req EXCEPT ![r].pc = "rollback", ![r].caught = "db"]

\* BEGIN returns (line 127).
Begin(r, ok) ==
    /\ req[r].pc = "begin"
    /\ IF ok
       THEN req' = [req EXCEPT ![r].pc = "insertOrder"]
       ELSE req' = ToRollback(r)
    /\ UNCHANGED <<users, userSeq, reg, userResp, productSeq, gw, down, orderResp, products,
                   orders, order_items, orderSeq, itemSeq, prodResp, rd>>

\* A sequence that hands out its current value again.
NextOrderIdStuck == orderSeq

\* id SERIAL of the orders table: the id the next inserted row gets.
NextOrderId == orderSeq + 1

\* INSERT INTO orders run through pool.query instead of the client of the
\* transaction: the row is visible at once and no ROLLBACK removes it.
InsertOrderAutocommit(r, ok) ==
    /\ req[r].pc = "insertOrder"
    /\ orderSeq' = NextOrderId
    /\ orders' = (NextOrderId :> [user_id |-> req[r].userId,
                                  total_amount |-> req[r].totalAmount,
                                  status |-> "pending"]) @@ orders
    /\ req' = [req EXCEPT ![r].order = <<[id |-> NextOrderId, user_id |-> req[r].userId,
                                          total_amount |-> req[r].totalAmount,
                                          status |-> "pending"]>>,
                          ![r].idx = 1,
                          ![r].pc = "insertItem"]
    /\ UNCHANGED <<users, userSeq, reg, userResp, productSeq, gw, down, orderResp, products,
                   order_items, itemSeq, prodResp, rd>>

\* INSERT INTO orders returns (lines 130-135).  The row stays private to the
\* transaction; a row the CHECKs refuse has used up a value of the sequence.
InsertOrder(r, ok) ==
    /\ req[r].pc = "insertOrder"
    /\ LET row == [user_id |-> req[r].userId, total_amount |-> req[r].totalAmount,
                   status |-> "pending"] IN
       IF ok /\ OrderRowOk(row)
       THEN /\ orderSeq' = NextOrderId
            /\ req' = [req EXCEPT ![r].order = <<[id |-> NextOrderId, user_id |-> row.user_id,
                                                  total_amount |-> row.total_amount,
                                                  status |-> row.status]>>,
                                  ![r].idx = 1,
                                  ![r].pc = "insertItem"]
       ELSE /\ orderSeq' = IF ok THEN NextOrderId ELSE orderSeq
            /\ req' = ToRollback(r)
    /\ UNCHANGED <<users, userSeq, reg, userResp, productSeq, gw, down, orderResp, products,
                   orders, order_items, itemSeq, prodResp, rd>>

\* The item row with the price and name the product has when the row is
\* written instead of the ones kept from the lookup.
ItemRowLive(r, item) ==
    [order_id |-> req[r].order[1].id, product_id |-> item.productId,
     quantity |-> item.quantity,
     price |-> IF item.productId \in DOMAIN products
               THEN products[item.productId].price
               ELSE req[r].productDetails[item.productId].price,
     product_name |-> IF item.productId \in DOMAIN products
                      THEN products[item.productId].name
                      ELSE req[r].productDetails[item.productId].name]

\* The row of order_items written for a line (line 142).
ItemRow(r, item) ==
    [order_id |-> req[r].order[1].id, product_id |-> item.productId,
     quantity |-> item.quantity,
     price |-> req[r].productDetails[item.productId].price,
     product_name |-> req[r].productDetails[item.productId].name]

\* Where a row inserted inside the transaction goes: the rows pending in the
\* transaction, invisible to every other connection until COMMIT.
PendingItems(r, id, row) == [req EXCEPT ![r].txItems = (id :> row) @@ req[r].txItems]

\* INSERT INTO order_items for line idx returns (lines 139-145).
InsertItem(r, ok) ==
    /\ req[r].pc = "insertItem"
    /\ LET item == req[r].items[req[r].idx]
           row == ItemRow(r, item) IN
       IF ok /\ ItemRowOk(row)
       THEN /\ itemSeq' = itemSeq + 1
            /\ req' = [PendingItems(r, itemSeq', row) EXCEPT
                          ![r].orderItems = Append(req[r].orderItems, row),
                          ![r].idx = req[r].idx + 1,
                          ![r].pc = IF req[r].idx < Len(req[r].items)
                                    THEN "insertItem" ELSE "commit"]
       ELSE /\ itemSeq' = IF ok THEN itemSeq + 1 ELSE itemSeq
            /\ req' = ToRollback(r)
    /\ UNCHANGED <<users, userSeq, reg, userResp, productSeq, gw, down, orderResp, products,
                   orders, order_items, orderSeq, prodResp, rd>>

\* The rows of the transaction become visible together.
CommittedOrders(r) ==
    (req[r].order[1].id :> [user_id |-> req[r].order[1].user_id,
                            total_amount |-> req[r].order[1].total_amount,
                            status |-> req[r].order[1].status]) @@ orders

CommittedItems(r) == req[r].txItems @@ order_items

\* The body of the 201 answer (lines 149-165).
Created(r) ==
    [Answer(201, "") EXCEPT !.order =
        <<[id |-> req[r].order[1].id,
           userId |-> req[r].order[1].user_id,
           totalAmount |-> req[r].order[1].total_amount,
           status |-> req[r].order[1].status,
           items |-> [i \in 1..Len(req[r].orderItems) |->
                        [productId |-> req[r].orderItems[i].product_id,
                         quantity |-> req[r].orderItems[i].quantity,
                         price |-> req[r].orderItems[i].price,
                         productName |-> req[r].orderItems[i].product_name]]]>>]

\* A COMMIT that also takes the ordered quantities off the stock.
CommitDecrementingStock(r, ok, applied) ==
    /\ req[r].pc = "commit"
    /\ ok
    /\ orders' = CommittedOrders(r)
    /\ order_items' = CommittedItems(r)
    /\ products' = [p \in DOMAIN products |->
                      IF p \in DOMAIN req[r].productDetails
                      THEN [products[p] EXCEPT !.stock = 0]
                      ELSE products[p]]
    /\ req' = [Respond(r, Created(r), "") EXCEPT ![r].txItems = <<>>,
                                                 ![r].client = FALSE]
    /\ UNCHANGED <<users, userSeq, reg, userResp, productSeq, gw, down, orderResp, orderSeq,
                   itemSeq, prodResp, rd>>

\* COMMIT returns (line 147).  On success the handler answers 201 and the
\* finally clause releases the connection.  When COMMIT fails the server may
\* or may not have applied it before the failure (applied).
Commit(r, ok, applied) ==
    /\ req[r].pc = "commit"
    /\ IF ok
       THEN /\ orders' = CommittedOrders(r)
            /\ order_items' = CommittedItems(r)
            /\ req' = [Respond(r, Created(r), "") EXCEPT ![r].txItems = <<>>,
                                                         ![r].client = FALSE]
       ELSE /\ orders' = IF applied THEN CommittedOrders(r) ELSE orders
            /\ order_items' = IF applied THEN CommittedItems(r) ELSE order_items
            /\ req' = [ToRollback(r) EXCEPT ![r].txItems = IF applied THEN <<>> ELSE @]
    /\ UNCHANGED <<users, userSeq, reg, userResp, productSeq, gw, down, orderResp, products,
                   orderSeq, itemSeq, prodResp, rd>>

\* A handler that releases the connection at the end of the try block
\* instead of in a finally clause: the path through the catch keeps it.
RollbackNoRelease(r) ==
    /\ req[r].pc = "rollback"
    /\ req' = [Respond(r, InternalError, req[r].caught) EXCEPT ![r].txItems = <<>>]
    /\ UNCHANGED <<users, userSeq, reg, userResp, productSeq, gw, down, orderResp, products,
                   orders, order_items, orderSeq, itemSeq, prodResp, rd>>

\* ROLLBACK returns, with or without an error (lines 166-171): the pending rows
\* are gone, the connection is released, the outer catch answers 500.
Rollback(r) ==
    /\ req[r].pc = "rollback"
    /\ req' = [Respond(r, InternalError, req[r].caught) EXCEPT ![r].txItems = <<>>,
                                                               ![r].client = FALSE]
    /\ UNCHANGED <<users, userSeq, reg, userResp, productSeq, gw, down, orderResp, products,
                   orders, order_items, orderSeq, itemSeq, prodResp, rd>>

(* ------------------- order service: status and reads ------------------- *)

\* updateOrderSchema.validate (lines 45-47): "" when the body passes, otherwise
\* the message of the first rule that fails.  A body is a function from its
\* keys to their values; a key the schema does not name is refused.
updateOrderSchema(body) ==
    IF "status" \notin DOMAIN body THEN "\"status\" is required"
    ELSE IF body.status \notin OrderStatuses
         THEN "\"status\" must be one of [pending, confirmed, shipped, delivered, cancelled]"
    ELSE IF DOMAIN body # {"status"} THEN "\"note\" is not allowed"
    ELSE ""

\* The body of the 200 answer of PUT /api/orders/:id (lines 304-314).
StatusUpdated(id, row) ==
    [Answer(200, "") EXCEPT !.order = <<[id |-> id, userId |-> row.user_id,
                                         totalAmount |-> row.total_amount,
                                         status |-> row.status]>>]

\* A schema that lets every status text through.
UpdateOrderStatusAnyText(id, body, dbOk) ==
    /\ "status" \in DOMAIN body
    /\ dbOk
    /\ id \in DOMAIN orders
    /\ orders' = [orders EXCEPT ![id].status = body.status]
    /\ orderResp' = StatusUpdated(id, orders'[id])
    /\ UNCHANGED <<users, userSeq, reg, userResp, productSeq, gw, down, products,
                   order_items, orderSeq, itemSeq, req, prodResp, rd>>

\* An UPDATE that also sets the total to the sum over the item rows.
UpdateOrderStatusRecomputing(id, body, dbOk) ==
    /\ updateOrderSchema(body) = ""
    /\ dbOk
    /\ id \in DOMAIN orders
    /\ orders' = [orders EXCEPT ![id].status = body.status, ![id].total_amount = 1]
    /\ orderResp' = StatusUpdated(id, orders'[id])
    /\ UNCHANGED <<users, userSeq, reg, userResp, productSeq, gw, down, products,
                   order_items, orderSeq, itemSeq, req, prodResp, rd>>

\* A handler that lets an order leave "delivered" and "cancelled" no more.
UpdateOrderStatusGuarded(id, body, dbOk) ==
    /\ updateOrderSchema(body) = ""
    /\ dbOk
    /\ id \in DOMAIN orders
    /\ IF orders[id].status \in {"delivered", "cancelled"}
       THEN /\ orderResp' = Answer(400, "Order is closed")
            /\ UNCHANGED orders
       ELSE /\ orders' = [orders EXCEPT ![id].status = body.status]
            /\ orderResp' = StatusUpdated(id, orders'[id])
    /\ UNCHANGED <<users, userSeq, reg, userResp, productSeq, gw, down, products,
                   order_items, orderSeq, itemSeq, req, prodResp, rd>>

\* PUT /api/orders/:id (lines 283-319): the body is validated, then one UPDATE
\* sets status (and updated_at) of the row with this id and returns it.
UpdateOrderStatus(id, body, dbOk) ==
    /\ LET error == updateOrderSchema(body) IN
       IF error # ""
       THEN /\ orderResp' = Answer(400, error)
            /\ UNCHANGED orders
       ELSE IF ~dbOk
       THEN /\ orderResp' = InternalError
            /\ UNCHANGED orders
       ELSE IF id \notin DOMAIN orders
       THEN /\ orderResp' = Answer(404, "Order not found")
            /\ UNCHANGED orders
       ELSE /\ orders' = [orders EXCEPT ![id].status = body.status]
            /\ orderResp' = StatusUpdated(id, orders'[id])
    /\ UNCHANGED <<users, userSeq, reg, userResp, productSeq, gw, down, products,
                   order_items, orderSeq, itemSeq, req, prodResp, rd>>

\* The ids in S as a sequence, highest first: the rows come back newest first
\* (ORDER BY created_at DESC, ids being handed out in the order of creation).
RECURSIVE Descending(_)
Descending(S) ==
    IF S = {} THEN <<>>
    ELSE LET k == CHOOSE x \in S : \A y \in S : y <= x IN <<k>> \o Descending(S \ {k})

\* The ids in S as a sequence, lowest first: the order in which a table
\* without ORDER BY returns rows that were never updated.
RECURSIVE Ascending(_)
Ascending(S) ==
    IF S = {} THEN <<>>
    ELSE LET k == CHOOSE x \in S : \A y \in S : x <= y IN <<k>> \o Ascending(S \ {k})

\* The rows of orders a read selects (lines 181-185, 233-236, 326-329).
SelectedOrders(kind, id) ==
    LET ids == CASE kind = "all" -> DOMAIN orders
                 [] kind = "one" -> {o \in DOMAIN orders : o = id}
                 [] kind = "user" -> {o \in DOMAIN orders : orders[o].user_id = id}
        seq == Descending(ids) IN
    [i \in 1..Len(seq) |-> [id |-> seq[i], user_id |-> orders[seq[i]].user_id,
                            total_amount |-> orders[seq[i]].total_amount,
                            status |-> orders[seq[i]].status]]

\* SELECT product_id, quantity, price, product_name FROM order_items WHERE
\* order_id = $1 (lines 190-193, 245-248, 334-337).
SelectedItems(id) ==
    LET seq == Ascending({i \in DOMAIN order_items : order_items[i].order_id = id}) IN
    [i \in 1..Len(seq) |-> order_items[seq[i]]]

\* A map that takes price and name from the products table when it can.
ReadItemsLive(rows) ==
    [i \in 1..Len(rows) |->
        [productId |-> rows[i].product_id, quantity |-> rows[i].quantity,
         price |-> IF rows[i].product_id \in DOMAIN products
                   THEN products[rows[i].product_id].price ELSE rows[i].price,
         productName |-> IF rows[i].product_id \in DOMAIN products
                         THEN products[rows[i].product_id].name ELSE rows[i].product_name]]

\* items: itemsResult.rows.map(...) (lines 212-217, 268-273, 347-352).
ReadItems(rows) ==
    [i \in 1..Len(rows) |-> [productId |-> rows[i].product_id, quantity |-> rows[i].quantity,
                             price |-> rows[i].price, productName |-> rows[i].product_name]]

\* The order object of GET /api/orders/user/:userId (lines 339-353).
ReadOrder(row, items) ==
    [id |-> row.id, userId |-> row.user_id, totalAmount |-> row.total_amount,
     status |-> row.status, items |-> ReadItems(items)]

\* The order object of GET /api/orders and GET /api/orders/:id (lines 204-218
\* and 259-275).
NamedOrder(row, items, userName) ==
    [id |-> row.id, userId |-> row.user_id, userName |-> userName,
     totalAmount |-> row.total_amount, status |-> row.status, items |-> ReadItems(items)]

\* The read answers and ends.
ReadRespond(resp) == [rd EXCEPT !.pc = "done", !.resp = resp]

\* The catch clause of the reads (lines 222-225, 277-280, 357-360).
ReadInternalError == ReadAnswer(500, "Internal server error", <<>>)

\* A GET request of the order service arrives: kind "all" is GET /api/orders,
\* "one" GET /api/orders/:id, "user" GET /api/orders/user/:userId; the handler
\* sends its first query.
ReceiveRead(kind, id) ==
    /\ rd.pc \in {"idle", "done"}
    /\ rd' = [IdleReader EXCEPT !.pc = "selectOrders", !.kind = kind, !.id = id]
    /\ UNCHANGED <<users, userSeq, reg, userResp, productSeq, gw, down, orderResp, products,
                   orders, order_items, orderSeq, itemSeq, req, prodResp>>

\* The order object is pushed: the loop goes on with the next row or the
\* handler answers 200 (lines 204-221, 259-276, 339-356).
Pushed(order) ==
    LET out == Append(rd.out, order) IN
    IF rd.idx < Len(rd.rows)
    THEN [rd EXCEPT !.out = out, !.idx = rd.idx + 1, !.items = <<>>, !.pc = "selectItems"]
    ELSE [ReadRespond(ReadAnswer(200, "", out)) EXCEPT !.out = out]

\* The query on orders returns (lines 181-185, 233-241, 326-329).
SelectOrders(ok) ==
    /\ rd.pc = "selectOrders"
    /\ LET rows == SelectedOrders(rd.kind, rd.id) IN
       IF ~ok THEN rd' = ReadRespond(ReadInternalError)
       ELSE IF rows = <<>>
       THEN rd' = ReadRespond(IF rd.kind = "one"
                              THEN ReadAnswer(404, "Order not found", <<>>)
                              ELSE ReadAnswer(200, "", <<>>))
       ELSE rd' = [rd EXCEPT !.rows = rows, !.idx = 1, !.pc = "selectItems"]
    /\ UNCHANGED <<users, userSeq, reg, userResp, productSeq, gw, down, orderResp, products,
                   orders, order_items, orderSeq, itemSeq, req, prodResp>>

\* The query on order_items for rows[idx] returns (lines 190-193, 245-248,
\* 334-337).  GET /api/orders/user/:userId pushes the order at once, the two
\* other reads ask the user service for the name first.
SelectItems(ok) ==
    /\ rd.pc = "selectItems"
    /\ LET items == SelectedItems(rd.rows[rd.idx].id) IN
       IF ~ok THEN rd' = ReadRespond(ReadInternalError)
       ELSE IF rd.kind = "user"
       THEN rd' = Pushed(ReadOrder(rd.rows[rd.idx], items))
       ELSE rd' = [rd EXCEPT !.items = items, !.pc = "userLookup"]
    /\ UNCHANGED <<users, userSeq, reg, userResp, productSeq, gw, down, orderResp, products,
                   orders, order_items, orderSeq, itemSeq, req, prodResp>>

\* A lookup whose failure is not caught where it happens: the catch clause
\* of the handler answers 500.
ReadUserLookupUncaught(outcome) ==
    /\ rd.pc = "userLookup"
    /\ LET answer == GetUser(rd.rows[rd.idx].user_id) IN
       IF outcome = "answered" /\ answer.status = 200
       THEN rd' = Pushed(NamedOrder(rd.rows[rd.idx], rd.items, answer.user[1].name))
       ELSE rd' = ReadRespond(ReadInternalError)
    /\ UNCHANGED <<users, userSeq, reg, userResp, productSeq, gw, down, orderResp, products,
                   orders, order_items, orderSeq, itemSeq, req, prodResp>>

\* The call to the user service for the name returns (lines 195-202 and
\* 250-257): every failure is logged and leaves userName as it was set.
ReadUserLookup(outcome) ==
    /\ rd.pc = "userLookup"
    /\ LET answer == GetUser(rd.rows[rd.idx].user_id)
           userName == IF outcome = "answered" /\ answer.status = 200
                       THEN answer.user[1].name
                       ELSE "Unknown User" IN
       rd' = Pushed(NamedOrder(rd.rows[rd.idx], rd.items, userName))
    /\ UNCHANGED <<users, userSeq, reg, userResp, productSeq, gw, down, orderResp, products,
                   orders, order_items, orderSeq, itemSeq, req, prodResp>>

(* ---------------------------- specification ---------------------------- *)

Lines == [productId : ReqProductIds, quantity : 0..MaxQuantity]

ItemLists == UNION {[1..n -> Lines] : n \in 0..MaxLines}

Outcomes == {"answered"} \cup UpstreamFailures

\* A JSON body of PUT /api/products/:id with the keys S.
UpdateBody(S, n, d, p, s, c) ==
    [f \in S |-> CASE f = "name" -> n
                  [] f = "description" -> d
                  [] f = "price" -> p
                  [] f = "stock" -> s
                  [] f = "category" -> c]

\* Bodies of the product updates that run beside the order requests.
UpdateBodies == {UpdateBody(S, "Gadget", "", 15000, 1, "") : S \in {{"price"}, {"name", "price", "stock"}}}

Next ==
    \/ \E r \in Requests, userId \in ReqUserIds, items \in ItemLists : ReceiveOrder(r, userId, items)
    \/ \E r \in Requests, outcome \in Outcomes : UserLookup(r, outcome)
    \/ \E r \in Requests, outcome \in Outcomes : ProductLookup(r, outcome)
    \/ \E r \in Requests, ok \in BOOLEAN : Connect(r, ok)
    \/ \E r \in Requests, ok \in BOOLEAN : Begin(r, ok)
    \/ \E r \in Requests, ok \in BOOLEAN : InsertOrder(r, ok)
    \/ \E r \in Requests, ok \in BOOLEAN : InsertItem(r, ok)
    \/ \E r \in Requests, ok \in BOOLEAN, applied \in BOOLEAN : Commit(r, ok, applied)
    \/ \E r \in Requests : Rollback(r)
    \/ \E id \in ReqProductIds, body \in UpdateBodies : UpdateProduct(id, body, TRUE)
    \/ \E id \in ReqProductIds : DeleteProduct(id, TRUE)

Spec == Init /\ [][Next]_vars

(* ----------------- the product service on its own ---------------------- *)

ProductKeys == {"name", "description", "price", "stock", "category"}

\* A body with every key and an ordinary value for each.
FullBody == UpdateBody(ProductKeys, "Gadget", "A gadget", 15000, 3, "Tools")

\* The zero value of the Go type behind a key.
ZeroValue(k) == IF k \in {"price", "stock"} THEN 0 ELSE ""

\* JSON bodies of POST /api/products and PUT /api/products/:id: the full body,
\* the full body with one key at its zero value or lacking, with a negative
\* price or stock, and bodies with one or two keys or none.
ProductBodies ==
    {FullBody}
    \cup {[FullBody EXCEPT ![k] = ZeroValue(k)] : k \in ProductKeys}
    \cup {[f \in ProductKeys \ {k} |-> FullBody[f]] : k \in {"price", "stock"}}
    \cup {[FullBody EXCEPT !["price"] = -100], [FullBody EXCEPT !["stock"] = -1]}
    \cup {UpdateBody(S, "Gadget", "", p, -1, "") :
             S \in {{}, {"stock"}, {"price", "stock"}, {"name", "price", "stock"}},
             p \in {-100, 0, 15000}}

\* Ids the product requests name: a seed product, the products created, and an
\* id that never has a row.
ProductIds == {1} \cup ((MaxKey(SeedProducts) + 1)..(MaxProductId + 1))

ProductNext ==
    \/ \E body \in ProductBodies, dbOk \in BOOLEAN : CreateProduct(body, dbOk)
    \/ CreateProductBadJSON
    \/ \E id \in ProductIds, body \in ProductBodies, dbOk \in BOOLEAN : UpdateProduct(id, body, dbOk)
    \/ \E id \in ProductIds : UpdateProductBadJSON(id)
    \/ \E id \in ProductIds, dbOk \in BOOLEAN : DeleteProduct(id, dbOk)

ProductSpec == Init /\ [][ProductNext]_vars

(* ------------------- the user service on its own ------------------------ *)

\* Payloads of POST /api/users/register: a stored address, a new one and one
\* that is no address; a password and a name that pass and ones too short.
RegisterEmails == {"john@example.com", "new@example.com", "not-an-email"}

RegisterPasswords == {"secret1", "12345"}

RegisterNames == {"New User", "N"}

\* A JSON body of PUT /api/users/:id with the keys S.
UserBody(S, n, e) == [f \in S |-> IF f = "name" THEN n ELSE e]

UserBodies ==
    {UserBody(S, n, e) : S \in SUBSET {"name", "email"}, n \in {"", "Johnny"},
                         e \in {"", "jane@example.com", "new@example.com"}}

\* Ids the user requests name: a seed user and an id that never has a row.
UserIds == {1, 9}

UserNext ==
    \/ \E g \in Registrations, email \in RegisterEmails, password \in RegisterPasswords,
          name \in RegisterNames : ReceiveRegister(g, email, password, name)
    \/ \E g \in Registrations, ok \in BOOLEAN : SelectExisting(g, ok)
    \/ \E g \in Registrations : HashPassword(g)
    \/ \E g \in Registrations, ok \in BOOLEAN : InsertUser(g, ok)
    \/ \E id \in UserIds, body \in UserBodies, dbOk \in BOOLEAN : UpdateUser(id, body, dbOk)
    \/ \E id \in UserIds, dbOk \in BOOLEAN : DeleteUser(id, dbOk)

UserSpec == Init /\ [][UserNext]_vars

(* ---------------------- the gateway on its own -------------------------- *)

Methods == {"GET", "POST", "PUT", "DELETE"}

\* Request paths as sequences of segments.
Paths ==
    {<<"health">>, <<"api", "users", "register">>, <<"api", "users", "1">>,
     <<"api", "products">>, <<"api", "orders">>, <<"api", "carts">>}

\* Request bodies: none, a JSON document, a document cut short.
Bodies == {<<>>, <<"{\"name\":\"Gadget\"}">>, <<"{\"name\":">>}

\* Statuses a backend answers with.
BackendStatuses == {200, 404}

GatewayNext ==
    \/ \E method \in Methods, path \in Paths, body \in Bodies : GwReceive(method, path, body)
    \/ GwJson
    \/ GwRoute
    \/ \E ok \in BOOLEAN, status \in BackendStatuses : GwUpstream(ok, status)
    \/ \E closed \in BOOLEAN : GwStarved(closed)
    \/ \E backend \in Backends : Fail(backend)
    \/ \E backend \in Backends : Recover(backend)

GatewaySpec == Init /\ [][GatewayNext]_vars

(* -------------------- partial updates on their own --------------------- *)

\* Ids the updates name: a seed row and an id that never has a row.
UpdateIds == {1, 9}

\* Bodies of the product updates: the full body, the bodies with a zero price
\* or an empty string, and the bodies with no other key than price and stock.
UpdateProductBodies ==
    {body \in ProductBodies :
        \/ body = FullBody
        \/ DOMAIN body \subseteq {"price", "stock"}
        \/ \E f \in DOMAIN body \ {"stock"} : body[f] = ZeroValue(f)}

UpdateNext ==
    \/ \E id \in UpdateIds, body \in UpdateProductBodies, dbOk \in BOOLEAN : UpdateProduct(id, body, dbOk)
    \/ \E id \in UpdateIds : UpdateProductBadJSON(id)
    \/ \E id \in UpdateIds, body \in UserBodies, dbOk \in BOOLEAN : UpdateUser(id, body, dbOk)

UpdateSpec == Init /\ [][UpdateNext]_vars

(* ------------------------ deletes on their own -------------------------- *)

\* Ids the delete requests name: two seed rows and an id that never has a row.
DeleteIds == {1, 2, 9}

DeleteNext ==
    \/ \E id \in DeleteIds, dbOk \in BOOLEAN : DeleteUser(id, dbOk)
    \/ \E id \in DeleteIds, dbOk \in BOOLEAN : DeleteProduct(id, dbOk)
    \/ \E id \in DeleteIds : DeleteOrder(id)

DeleteSpec == Init /\ [][DeleteNext]_vars

(* ------------------ order status updates on their own ------------------ *)

\* Bodies of PUT /api/orders/:id: each status of the schema, a text outside
\* it, no status, a key the schema does not name.
StatusBodies ==
    {[status |-> s] : s \in OrderStatuses \cup {"refunded"}}
    \cup {<<>>, [status |-> "shipped", note |-> "late"]}

\* Ids of the status updates: a seed order, the first created order, no order.
StatusIds == {1, MaxKey(SeedOrders) + 1, 9}

\* The order the one creation request of this specification asks for.
StatusItemLists == {<<[productId |-> 1, quantity |-> q]>> : q \in 1..MaxQuantity}

\* One order is created while statuses are updated.
StatusNext ==
    \/ \E items \in StatusItemLists : ReceiveOrder(1, 1, items)
    \/ UserLookup(1, "answered")
    \/ ProductLookup(1, "answered")
    \/ Connect(1, TRUE)
    \/ Begin(1, TRUE)
    \/ \E ok \in BOOLEAN : InsertOrder(1, ok)
    \/ InsertItem(1, TRUE)
    \/ \E ok \in BOOLEAN, applied \in BOOLEAN : Commit(1, ok, applied)
    \/ Rollback(1)
    \/ \E id \in StatusIds, body \in StatusBodies, dbOk \in BOOLEAN :
          UpdateOrderStatus(id, body, dbOk)

StatusSpec == Init /\ [][StatusNext]_vars

(* ------------- stored orders beside the three services' writes ---------- *)

\* Bodies of the status updates that run beside the other services' writes.
FrameStatusBodies == {[status |-> "shipped"], [status |-> "cancelled"]}

\* Ids of these status updates: a seed order and the first created order.
FrameIds == {1, MaxKey(SeedOrders) + 1}

\* Bodies of PUT /api/users/:id that run beside them.
FrameUserBodies == {[name |-> "Johnny"]}

\* One order is created and statuses are updated while the product and the
\* user the orders refer to are updated and deleted.
FrameNext ==
    \/ \E items \in StatusItemLists : ReceiveOrder(1, 1, items)
    \/ UserLookup(1, "answered")
    \/ ProductLookup(1, "answered")
    \/ Connect(1, TRUE)
    \/ Begin(1, TRUE)
    \/ \E ok \in BOOLEAN : InsertOrder(1, ok)
    \/ InsertItem(1, TRUE)
    \/ \E ok \in BOOLEAN, applied \in BOOLEAN : Commit(1, ok, applied)
    \/ Rollback(1)
    \/ \E id \in FrameIds, body \in FrameStatusBodies : UpdateOrderStatus(id, body, TRUE)
    \/ \E id \in FrameIds : DeleteOrder(id)
    \/ \E body \in UpdateBodies : UpdateProduct(1, body, TRUE)
    \/ DeleteProduct(1, TRUE)
    \/ \E body \in FrameUserBodies : UpdateUser(1, body, TRUE)
    \/ DeleteUser(1, TRUE)

FrameSpec == Init /\ [][FrameNext]_vars

(* ---------------------- order reads on their own ------------------------ *)

\* The GET requests: all orders, one order (a seed order, the first created
\* order, no order), the orders of a user (with orders, without).
Reads ==
    {<<"all", 0>>}
    \cup {<<"one", id>> : id \in {1, MaxKey(SeedOrders) + 1, 9}}
    \cup {<<"user", id>> : id \in {1, 9}}

\* Bodies of the product updates that run beside the reads.
ReadProductBodies == {UpdateBody({"name", "price", "stock"}, "Gadget", "", 15000, 1, "")}

\* Orders are read while one order is created, the product of the orders is
\* updated and deleted, and the user of the orders is deleted.
ReadNext ==
    \/ \E items \in StatusItemLists : ReceiveOrder(1, 1, items)
    \/ UserLookup(1, "answered")
    \/ ProductLookup(1, "answered")
    \/ Connect(1, TRUE)
    \/ Begin(1, TRUE)
    \/ InsertOrder(1, TRUE)
    \/ InsertItem(1, TRUE)
    \/ \E ok \in BOOLEAN, applied \in BOOLEAN : Commit(1, ok, applied)
    \/ Rollback(1)
    \/ \E read \in Reads : ReceiveRead(read[1], read[2])
    \/ \E ok \in BOOLEAN : SelectOrders(ok)
    \/ \E ok \in BOOLEAN : SelectItems(ok)
    \/ \E outcome \in Outcomes : ReadUserLookup(outcome)
    \/ \E body \in ReadProductBodies : UpdateProduct(1, body, TRUE)
    \/ DeleteProduct(1, TRUE)
    \/ DeleteUser(1, TRUE)

ReadSpec == Init /\ [][ReadNext]_vars

(* --------------------- order creation on its own ------------------------ *)

\* The steps of the POST /api/orders handler of request r.
OrderStep(r) ==
    \/ \E userId \in ReqUserIds, items \in ItemLists : ReceiveOrder(r, userId, items)
    \/ \E outcome \in Outcomes : UserLookup(r, outcome)
    \/ \E outcome \in Outcomes : ProductLookup(r, outcome)
    \/ \E ok \in BOOLEAN : Connect(r, ok)
    \/ \E ok \in BOOLEAN : Begin(r, ok)
    \/ \E ok \in BOOLEAN : InsertOrder(r, ok)
    \/ \E ok \in BOOLEAN : InsertItem(r, ok)
    \/ \E ok \in BOOLEAN, applied \in BOOLEAN : Commit(r, ok, applied)
    \/ Rollback(r)

OrderNext == \E r \in Requests : OrderStep(r)

OrderSpec == Init /\ [][OrderNext]_vars

\* The steps of request r that are the return of a call it is waiting for.
Returns(r) ==
    \/ \E outcome \in Outcomes : UserLookup(r, outcome)
    \/ \E outcome \in Outcomes : ProductLookup(r, outcome)
    \/ \E ok \in BOOLEAN : Connect(r, ok)
    \/ \E ok \in BOOLEAN : Begin(r, ok)
    \/ \E ok \in BOOLEAN : InsertOrder(r, ok)
    \/ \E ok \in BOOLEAN : InsertItem(r, ok)
    \/ \E ok \in BOOLEAN, applied \in BOOLEAN : Commit(r, ok, applied)
    \/ Rollback(r)

\* Order creation when every outbound call and every database call returns,
\* with success or with a failure.
FairOrderSpec == OrderSpec /\ \A r \in Requests : WF_vars(Returns(r))

(* ------------------------- what the claims speak of --------------------- *)

\* The ids of the committed item rows of order k, and the rows by ascending id.
ItemsOf(k) == {i \in DOMAIN order_items : order_items[i].order_id = k}

ItemSeq(k) ==
    [n \in 1..Cardinality(ItemsOf(k)) |->
        order_items[CHOOSE i \in ItemsOf(k) : Cardinality({j \in ItemsOf(k) : j < i}) = n - 1]]

\* The orders written by POST /api/orders (the others are the seed rows).
PostOrders == DOMAIN orders \ DOMAIN SeedOrders

\* Request r has written nothing, visible or pending, and holds no connection.
WroteNothing(r) ==
    /\ req[r].order = <<>>
    /\ req[r].txItems = <<>>
    /\ req[r].orderItems = <<>>
    /\ ~req[r].client

\* The step changes the local state of request r.
StepOf(r) == req'[r] # req[r]

TablesUnchanged == orders' = orders /\ order_items' = order_items

(* -------------------------------- C1 ----------------------------------- *)

\* The order row of request r is visible together with one item row per line.
WhollyVisible(r) ==
    LET k == req[r].order[1].id IN
    /\ k \in DOMAIN orders
    /\ Cardinality(ItemsOf(k)) = Len(req[r].items)
    /\ \A n \in 1..Len(req[r].items) :
          /\ ItemSeq(k)[n].product_id = req[r].items[n].productId
          /\ ItemSeq(k)[n].quantity = req[r].items[n].quantity

\* No row of request r is visible.
WhollyInvisible(r) ==
    LET k == req[r].order[1].id IN
    k \notin DOMAIN orders /\ ItemsOf(k) = {}

\* An INSERT of request r failed inside its transaction.
InsertFailed(r) ==
    /\ req[r].pc \in {"rollback", "done"}
    /\ req[r].caught = "db"
    /\ Len(req[r].orderItems) < Len(req[r].items)

AllOrNothingState ==
    /\ \A r \in Requests :
          req[r].order # <<>> =>
             /\ WhollyVisible(r) \/ WhollyInvisible(r)
             /\ req[r].resp.status = 201 => WhollyVisible(r)
             /\ InsertFailed(r) => WhollyInvisible(r)
    /\ \A i \in DOMAIN order_items : order_items[i].order_id \in DOMAIN orders
    /\ \A k \in PostOrders : ItemsOf(k) # {}

\* C1: order creation is all-or-nothing.  In every reachable state the order
\* row of a request is visible together with exactly one item row per requested
\* line (in request order), or no row of the request is visible at all; after
\* a failed insert nothing of the request is visible; no item row is visible
\* without its order; and the item rows of a visible order never change
\* afterwards, so a reader that fetches the order and then its items in two
\* queries sees all of them too.
AllOrNothing ==
    /\ []AllOrNothingState
    /\ [][\A k \in DOMAIN orders :
            /\ k \in DOMAIN orders'
            /\ ItemsOf(k)' = ItemsOf(k)
            /\ \A i \in ItemsOf(k) : order_items'[i] = order_items[i]]_vars

\* Witness of C1: a two-line order is visible as a whole while another request
\* has been rolled back after its order row and one item row had been inserted.
AllOrNothingWitness ==
    \E r, q \in Requests :
        /\ req[r].resp.status = 201 /\ Len(req[r].items) = 2 /\ WhollyVisible(r)
        /\ req[q].pc = "done" /\ req[q].order # <<>> /\ InsertFailed(q)
        /\ Len(req[q].orderItems) = 1 /\ WhollyInvisible(q)

(* -------------------------------- C2 ----------------------------------- *)

UserNotFoundState ==
    \A r \in Requests :
        req[r].resp.error = "User not found" =>
            /\ req[r].resp.status = 400
            /\ req[r].pc = "done"
            /\ WroteNothing(r)

UserNotFoundStep ==
    \A r \in Requests :
        /\ (StepOf(r) /\ req[r].pc \in {"idle", "userLookup"}) => TablesUnchanged
        /\ (StepOf(r) /\ req[r].pc = "userLookup" /\ req[r].userId \notin DOMAIN users) =>
              /\ req'[r].pc = "done"
              /\ req'[r].caught \in {"status404", "upstream"}
              /\ req'[r].caught = "status404" => req'[r].resp = Answer(400, "User not found")
              /\ req'[r].order = <<>> /\ req'[r].txItems = <<>> /\ ~req'[r].client

\* C2: an order for a userId that has no row in the user service fails: when
\* the user service answers the lookup (with its 404), the caller gets 400
\* 'User not found', the handler ends there, and neither this step nor any
\* earlier step of the request changes the order rows or the item rows; a
\* request answered 'User not found' has written nothing.
UserNotFoundPersistsNothing ==
    []UserNotFoundState /\ [][UserNotFoundStep]_vars

\* Witness of C2: a request for a user without a row was answered 400 'User not
\* found' while the tables hold exactly the seed rows.
UserNotFoundWitness ==
    \E r \in Requests :
        /\ req[r].resp = Answer(400, "User not found")
        /\ req[r].userId \notin DOMAIN users
        /\ req[r].items # <<>>
        /\ orders = SeedOrders /\ order_items = SeedOrderItems

(* -------------------------------- C3 ----------------------------------- *)

InsufficientStockState ==
    \A r \in Requests :
        req[r].resp.error = "Insufficient stock for product" =>
            /\ req[r].resp.status = 400
            /\ req[r].resp.requested > req[r].resp.available
            /\ req[r].pc = "done"
            /\ WroteNothing(r)

InsufficientStockStep ==
    \A r \in Requests :
        /\ (StepOf(r) /\ req[r].pc \in {"idle", "userLookup", "productLookup"}) => TablesUnchanged
        /\ (/\ StepOf(r)
            /\ req[r].pc = "productLookup"
            /\ req[r].items[req[r].idx].productId \in DOMAIN products
            /\ products[req[r].items[req[r].idx].productId].stock
                   < req[r].items[req[r].idx].quantity) =>
              /\ req'[r].pc = "done"
              /\ req'[r].caught \in {"", "upstream"}
              /\ req'[r].caught = "" =>
                    /\ req'[r].resp.status = 400
                    /\ req'[r].resp.error = "Insufficient stock for product"
                    /\ req'[r].resp.available = products[req[r].items[req[r].idx].productId].stock
                    /\ req'[r].resp.requested = req[r].items[req[r].idx].quantity
              /\ req'[r].order = <<>> /\ req'[r].txItems = <<>> /\ ~req'[r].client

\* C3: when the quantity of a line exceeds the stock of its product at the
\* lookup of that line, the request fails: if the product service answers, the
\* caller gets the 400 insufficient-stock error naming the stock and the
\* quantity; the handler ends there, and no step of the request up to then has
\* written an order row or an item row, also when earlier lines had passed.
InsufficientStockPersistsNothing ==
    []InsufficientStockState /\ [][InsufficientStockStep]_vars

\* Witness of C3: the second line of a request failed the stock test after the
\* first line had passed it, and nothing was written.
InsufficientStockWitness ==
    \E r \in Requests :
        /\ req[r].resp.status = 400
        /\ req[r].resp.error = "Insufficient stock for product"
        /\ req[r].idx = 2
        /\ 1 \in DOMAIN req[r].productDetails
        /\ WroteNothing(r)
        /\ orders = SeedOrders /\ order_items = SeedOrderItems

(* -------------------------------- C4 ----------------------------------- *)

RECURSIVE SumOfItems(_)
SumOfItems(S) ==
    IF S = {} THEN 0
    ELSE LET i == CHOOSE x \in S : TRUE IN
         order_items[i].price * order_items[i].quantity + SumOfItems(S \ {i})

OrderCreationKeepsStock ==
    [][(\E r \in Requests : StepOf(r)) => products' = products]_vars

\* Witness of C5: one request has been answered 201 and another one 400 for
\* insufficient stock while the product still has the stock both were shown.
OrderCreationKeepsStockWitness ==
    \E r, q \in Requests :
        /\ req[r].resp.status = 201
        /\ req[q].resp.error = "Insufficient stock for product"
        /\ 1 \in DOMAIN products
        /\ req[r].productDetails[1].stock = products[1].stock
        /\ req[q].resp.available = products[1].stock

(* -------------------------------- C6 ----------------------------------- *)

StockCheckAdvisoryStep ==
    \A r \in Requests :
        /\ (/\ StepOf(r)
            /\ req[r].pc = "productLookup"
            /\ req[r].items[req[r].idx].productId \in DOMAIN products
            /\ products[req[r].items[req[r].idx].productId].stock
                   >= req[r].items[req[r].idx].quantity
            /\ req'[r].caught = "") =>
              /\ req'[r].pc \in {"productLookup", "connect"}
              /\ req'[r].resp = NoResp
        /\ (StepOf(r) /\ req[r].pc = "commit" /\ req'[r].caught = "") =>
              /\ req'[r].resp.status = 201
              /\ req[r].order[1].id \in DOMAIN orders'

\* C6: the stock check is advisory.  A line passes it whenever its quantity is
\* at most the stock the product has at the lookup, whatever has been ordered
\* before or is being ordered by other requests, and a COMMIT that succeeds
\* makes the order visible whatever the stock is; so (witness) two orders
\* whose quantities together exceed the stock both get committed.
StockCheckAdvisory == [][StockCheckAdvisoryStep]_vars

\* Witness of C6: two requests for the same product, each with a quantity within
\* the stock both were shown and which the product still has, are both
\* committed, and the quantity ordered exceeds that stock.
Oversold ==
    \E r, q \in Requests :
        /\ r # q
        /\ req[r].resp.status = 201 /\ req[q].resp.status = 201
        /\ WhollyVisible(r) /\ WhollyVisible(q)
        /\ 1 \in DOMAIN products
        /\ req[r].productDetails[1].stock = products[1].stock
        /\ req[q].productDetails[1].stock = products[1].stock
        /\ \A n \in 1..Len(req[r].items) : req[r].items[n].quantity <= products[1].stock
        /\ \A n \in 1..Len(req[q].items) : req[q].items[n].quantity <= products[1].stock
        /\ SoldQuantity(1) > products[1].stock

(* -------------------------------- C7 ----------------------------------- *)

KnownErrors ==
    {"\"userId\" must be a positive number",
     "\"items[i].productId\" must be a positive number",
     "\"items[i].quantity\" must be a positive number",
     "\"items\" must contain at least 1 items",
     "User not found", "Product with ID not found", "Insufficient stock for product"}

\* C7: order creation is not idempotent.  Any two requests that were answered
\* 201 (among them two with the same body) have orders with different ids, each
\* visible with all its items; and a request is only ever refused for a reason
\* of its own (payload, user, product, stock, a failed call): never because
\* of an earlier request with the same body.
NotIdempotent ==
    /\ \A r, q \in Requests :
          (r # q /\ req[r].resp.status = 201 /\ req[q].resp.status = 201) =>
             /\ req[r].resp.order[1].id # req[q].resp.order[1].id
             /\ WhollyVisible(r) /\ WhollyVisible(q)
             /\ req[r].resp.order[1].id \in PostOrders
             /\ req[q].resp.order[1].id \in PostOrders
    /\ \A r \in Requests :
          req[r].pc = "done" =>
             \/ req[r].resp.status = 201 /\ req[r].caught = ""
             \/ req[r].resp.status = 400 /\ req[r].resp.error \in KnownErrors
             \/ req[r].resp = InternalError /\ req[r].caught \in {"upstream", "db"}

\* Witness of C7: two requests with the same userId and the same items were
\* both answered 201 and two distinct orders with these items are visible.
NotIdempotentWitness ==
    \E r, q \in Requests :
        /\ r # q
        /\ req[r].userId = req[q].userId /\ req[r].items = req[q].items
        /\ req[r].resp.status = 201 /\ req[q].resp.status = 201
        /\ req[r].resp.order[1].id # req[q].resp.order[1].id
        /\ req[r].resp.order[1].items = req[q].resp.order[1].items
        /\ WhollyVisible(r) /\ WhollyVisible(q)

(* -------------------------------- C8 ----------------------------------- *)

\* The item row request r is to have stored for its line n in order k.
ExpectedItem(r, k, n) ==
    [order_id |-> k,
     product_id |-> req[r].items[n].productId,
     quantity |-> req[r].items[n].quantity,
     price |-> req[r].productDetails[req[r].items[n].productId].price,
     product_name |-> req[r].productDetails[req[r].items[n].productId].name]

\* C8: a request that is answered 201 has persisted an order whose status is
\* 'pending', whose user_id is the requested userId and whose item rows are,
\* in request order, exactly the requested lines, each with the price and the
\* name the handler kept from the lookup of its product; the 201 body shows
\* the same; and a request whose payload, user, products, stock and database
\* calls all passed is answered 201.
CreatedOrderMatchesRequest ==
    \A r \in Requests :
        /\ req[r].resp.status = 201 =>
              LET k == req[r].resp.order[1].id IN
              /\ k \in DOMAIN orders
              /\ orders[k].status = "pending"
              /\ orders[k].user_id = req[r].userId
              /\ req[r].resp.order[1].userId = req[r].userId
              /\ req[r].resp.order[1].status = "pending"
              /\ Cardinality(ItemsOf(k)) = Len(req[r].items)
              /\ Len(req[r].resp.order[1].items) = Len(req[r].items)
              /\ \A n \in 1..Len(req[r].items) :
                    /\ ItemSeq(k)[n] = ExpectedItem(r, k, n)
                    /\ req[r].resp.order[1].items[n] =
                          [productId |-> ExpectedItem(r, k, n).product_id,
                           quantity |-> ExpectedItem(r, k, n).quantity,
                           price |-> ExpectedItem(r, k, n).price,
                           productName |-> ExpectedItem(r, k, n).product_name]
        /\ (req[r].pc = "done" /\ req[r].caught = "" /\ req[r].resp.status # 400) =>
              req[r].resp.status = 201

\* Witness of C8: a request with two different lines was answered 201 after the
\* product had been renamed and repriced, and again changed after the lookup.
CreatedOrderWitness ==
    \E r \in Requests :
        /\ req[r].resp.status = 201
        /\ Len(req[r].items) = 2
        /\ req[r].items[1].quantity # req[r].items[2].quantity
        /\ req[r].productDetails[1].name = "Gadget"
        /\ 1 \in DOMAIN products => products[1].stock # req[r].productDetails[1].stock

(* -------------------------------- C9 ----------------------------------- *)

PriceOnlyBody == UpdateBody({"price"}, "", "", 15000, 0, "")

\* C10: a PUT /api/products/:id whose body holds only the price changes the
\* price of that product and leaves its name, description, stock and category
\* as they were.
PriceOnlyUpdateKeepsOtherFields ==
    [][\A id \in DOMAIN products :
          UpdateProduct(id, PriceOnlyBody, TRUE) =>
             /\ id \in DOMAIN products'
             /\ products'[id].price = 15000
             /\ products'[id].name = products[id].name
             /\ products'[id].description = products[id].description
             /\ products'[id].stock = products[id].stock
             /\ products'[id].category = products[id].category]_vars


\* The product body without the keys that carry a zero price or an empty name,
\* description or category.
ProductOmitEmpty(body) ==
    [k \in {f \in DOMAIN body : f = "stock" \/ body[f] # ZeroValue(f)} |-> body[k]]

\* The user body without the keys whose value is empty.
UserOmitEmpty(body) == [k \in {f \in DOMAIN body : body[f] # ""} |-> body[k]]

EmptyKeysOfProduct(body) == {f \in DOMAIN body \ {"stock"} : body[f] = ZeroValue(f)}

EmptyKeysOfUser(body) == {f \in DOMAIN body : body[f] = ""}

\* The bodies of the specification that carry such a value.
ProductBodiesWithEmpty == {body \in UpdateProductBodies : EmptyKeysOfProduct(body) # {}}

UserBodiesWithEmpty == {body \in UserBodies : EmptyKeysOfUser(body) # {}}

ProductEmptyLikeOmitted ==
    \A body \in ProductBodiesWithEmpty, id \in UpdateIds, dbOk \in BOOLEAN :
        UpdateProduct(id, body, dbOk) =>
            /\ UpdateProduct(id, ProductOmitEmpty(body), dbOk)
            /\ id \in DOMAIN products /\ id \in DOMAIN products' =>
                  \A f \in EmptyKeysOfProduct(body) : products'[id][f] = products[id][f]

UserEmptyLikeOmitted ==
    \A body \in UserBodiesWithEmpty, id \in UpdateIds, dbOk \in BOOLEAN :
        UpdateUser(id, body, dbOk) =>
            /\ UpdateUser(id, UserOmitEmpty(body), dbOk)
            /\ id \in DOMAIN users /\ id \in DOMAIN users' =>
                  \A f \in EmptyKeysOfUser(body) : users'[id][f] = users[id][f]

\* C11: in a partial update of a product or a user, a zero price and an empty
\* name, description, category or email are handled exactly as if the key were
\* absent: the step is also the step of the body without those keys (same
\* answer, same table), and the stored value of each such field stays.
EmptyValueLikeOmitted == [][ProductEmptyLikeOmitted /\ UserEmptyLikeOmitted]_vars

\* C11 has happened: product 1 carries the description of the full body beside
\* its own name, which only the update with an empty name leaves behind, and
\* user 1 has a new address beside the old name after an answer 200.
EmptyValueLikeOmittedWitness ==
    /\ prodResp.status = 200
    /\ 1 \in DOMAIN products
    /\ products[1].name = SeedProducts[1].name
    /\ products[1].description = FullBody["description"]
    /\ userResp.status = 200
    /\ users[1].name = SeedUsers[1].name
    /\ users[1].email = "new@example.com"


\* The other rows of a table f are in f2 as they were, and no row came or went.
OnlyRowChanged(f, f2, id) ==
    /\ DOMAIN f2 = DOMAIN f
    /\ \A i \in DOMAIN f \ {id} : f2[i] = f[i]

\* The update statement of the request is carried out: at least one column to
\* set and the database answering.
ProductUpdateRuns(body, dbOk) == dbOk /\ UpdateColumns(BindUpdateProduct(body)) # {}

UserUpdateRuns(body, dbOk) == dbOk /\ UserUpdateColumns(body) # {}

ProductUpdateOneRow ==
    \A id \in UpdateIds, body \in UpdateProductBodies, dbOk \in BOOLEAN :
        UpdateProduct(id, body, dbOk) =>
            /\ prodResp'.status # 200 => products' = products
            /\ ProductUpdateRuns(body, dbOk) /\ id \notin DOMAIN products =>
                  prodResp'.status = 404 /\ products' = products
            /\ ProductUpdateRuns(body, dbOk) /\ id \in DOMAIN products =>
                  /\ prodResp'.status = 200
                  /\ OnlyRowChanged(products, products', id)
                  /\ prodResp'.product = <<products'[id]>>

UserUpdateOneRow ==
    \A id \in UpdateIds, body \in UserBodies, dbOk \in BOOLEAN :
        UpdateUser(id, body, dbOk) =>
            /\ userResp'.status # 200 => users' = users
            /\ UserUpdateRuns(body, dbOk) /\ id \notin DOMAIN users =>
                  userResp'.status = 404 /\ users' = users
            /\ (/\ UserUpdateRuns(body, dbOk)
                /\ id \in DOMAIN users
                /\ ~EmailTaken(ApplyUserUpdate(users[id], body).email, id)) =>
                  /\ userResp'.status = 200
                  /\ OnlyRowChanged(users, users', id)
                  /\ userResp'.user = <<[id |-> id] @@ users'[id]>>

\* C12: a partial update whose UPDATE statement is carried out answers 404 and
\* leaves the table as it was when the id has no row; when the id has a row
\* (and, for a user, the new address is not another user's) it answers 200,
\* changes no other row and returns the row as it is stored afterwards.  An
\* update answered otherwise than 200 changes nothing.
PartialUpdateOneRowOrNotFound == [][ProductUpdateOneRow /\ UserUpdateOneRow]_vars

\* C12 has happened: the product service has answered 200 with the changed row
\* of product 1 beside the untouched product 2, and the user service has
\* answered 404 with the user table as seeded.
PartialUpdateWitness ==
    /\ prodResp.status = 200
    /\ prodResp.product = <<products[1]>>
    /\ products[1] # SeedProducts[1]
    /\ products[2] = SeedProducts[2]
    /\ userResp.status = 404
    /\ users = SeedUsers


\* The body asks for a price that is not positive or for a negative stock.
BadPriceOrStock(body) ==
    \/ "price" \in DOMAIN body /\ body["price"] <= 0
    \/ "stock" \in DOMAIN body /\ body["stock"] < 0

\* The bodies of the specification that do so.
BadProductBodies == {b \in ProductBodies : BadPriceOrStock(b)}

\* C13: a POST /api/products whose price is <= 0 or whose stock is < 0 is
\* answered 400, and neither a row nor a sequence value is taken for it.
CreateRejectsBadPriceOrStock ==
    [][\A body \in BadProductBodies, dbOk \in BOOLEAN :
          CreateProduct(body, dbOk) =>
             /\ prodResp'.status = 400
             /\ products' = products
             /\ productSeq' = productSeq]_vars

\* C13 has happened: the answer is the 400 of the tag gt=0, which only a create
\* request with a negative price draws, and the table is as seeded.
CreateRejectsWitness ==
    /\ prodResp = ProdAnswer(400, "Price failed on the 'gt' tag", <<>>)
    /\ products = SeedProducts
    /\ productSeq = MaxKey(SeedProducts)


\* The validation rules of the API documentation for POST /api/products: name,
\* description and category given, price greater than 0, stock given and >= 0.
DocumentedValid(body) ==
    /\ DOMAIN body = ProductKeys
    /\ body["name"] # "" /\ body["description"] # "" /\ body["category"] # ""
    /\ body["price"] > 0
    /\ body["stock"] >= 0

\* C14: every POST /api/products that meets the documented validation rules,
\* a stock of 0 included, is answered 201 with the created product, which is
\* then stored under a new id.
CreateAcceptsDocumented ==
    [][\A body \in {b \in ProductBodies : DocumentedValid(b)} :
          CreateProduct(body, TRUE) =>
             /\ prodResp'.status = 201
             /\ prodResp'.product = <<NewProductRow(BindCreateProduct(body))>>
             /\ productSeq' \in DOMAIN products' \ DOMAIN products
             /\ products'[productSeq'] = NewProductRow(BindCreateProduct(body))]_vars


StoredProductsValid ==
    \A id \in DOMAIN products : products[id].price > 0 /\ products[id].stock >= 0

\* The step removes or changes the row of product id.
RowTouched(id) == id \notin DOMAIN products' \/ products'[id] # products[id]

UpdateNeverStoresBad ==
    \A id \in ProductIds \cap DOMAIN products :
        RowTouched(id) =>
            \A body \in BadProductBodies, dbOk \in BOOLEAN :
                UpdateProduct(id, body, dbOk) =>
                    /\ id \in DOMAIN products'
                    /\ ("price" \in DOMAIN body /\ body["price"] <= 0) =>
                          products'[id].price = products[id].price
                    /\ ("stock" \in DOMAIN body /\ body["stock"] < 0) =>
                          products'[id].stock = products[id].stock

\* C15: whatever product create, update and delete requests have been served,
\* every stored product has price > 0 and stock >= 0, and an update whose body
\* carries a price <= 0 or a stock < 0 leaves the stored price, respectively
\* stock, of the product as it was.
ProductsAlwaysValid == []StoredProductsValid /\ [][UpdateNeverStoresBad]_vars

\* C15 has happened: a product has been created, product 1 has been brought to
\* stock 0, and the last request was an update with a negative stock and nothing
\* else to set, which the service refused.
ProductsAlwaysValidWitness ==
    /\ MaxProductId \in DOMAIN products
    /\ 1 \in DOMAIN products /\ products[1].stock = 0
    /\ prodResp = ProdAnswer(400, "No fields to update", <<>>)


Success(status) == status \in 200..299

DeleteMissingStep ==
    \A id \in DeleteIds :
        /\ \A dbOk \in BOOLEAN :
              (id \notin DOMAIN users /\ DeleteUser(id, dbOk)) =>
                  /\ ~Success(userResp'.status)
                  /\ dbOk => userResp'.status = 404
                  /\ users' = users
        /\ \A dbOk \in BOOLEAN :
              (id \notin DOMAIN products /\ DeleteProduct(id, dbOk)) =>
                  /\ ~Success(prodResp'.status)
                  /\ dbOk => prodResp'.status = 404
                  /\ products' = products
        /\ (id \notin DOMAIN orders /\ DeleteOrder(id)) =>
              /\ orderResp'.status = 404
              /\ orders' = orders /\ order_items' = order_items

\* C16: a DELETE of a user, a product or an order whose id has no row is
\* answered 404 (500 when the database fails), never with a success status,
\* and leaves the tables of the service as they were.
DeleteMissingNotFound == [][DeleteMissingStep]_vars

\* C16 has happened: user 1 and product 1 have been deleted, and each of the
\* three services has since answered a DELETE with 404.
DeleteMissingWitness ==
    /\ 1 \notin DOMAIN users /\ userResp.status = 404
    /\ 1 \notin DOMAIN products /\ prodResp.status = 404
    /\ orderResp.status = 404
    /\ orders = SeedOrders


\* C17: whatever register, update and delete requests have been served and in
\* whatever order their steps were taken, no two stored users have the same
\* email.
UniqueEmails ==
    \A u, v \in DOMAIN users : u # v => users[u].email # users[v].email

\* C17 has happened: two registrations with the same address were in flight
\* together, both past the SELECT that found no such user; one has inserted its
\* row and the other's INSERT has been refused.
UniqueEmailsWitness ==
    /\ reg[1].email = reg[2].email
    /\ reg[1].resp.status = 201
    /\ reg[2].pc = "done" /\ reg[2].resp.status = 500
    /\ userSeq = MaxKey(SeedUsers) + 2
    /\ MaxKey(SeedUsers) + 1 \in DOMAIN users
    /\ users[MaxKey(SeedUsers) + 1].email = reg[1].email
    /\ MaxKey(SeedUsers) + 2 \notin DOMAIN users


\* A user other than id holds the address.
HeldByAnother(email, id) == \E u \in DOMAIN users \ {id} : users[u].email = email

DuplicateEmailStep ==
    /\ \A g \in Registrations :
          /\ (HeldByAnother(reg[g].email, 0) /\ SelectExisting(g, TRUE)) =>
                reg'[g].resp.status = 409 /\ users' = users
          /\ (HeldByAnother(reg[g].email, 0) /\ InsertUser(g, TRUE)) =>
                reg'[g].resp.status = 409 /\ users' = users
    /\ \A id \in DOMAIN users, body \in {b \in UserBodies : Truthy(b, "email")} :
          (HeldByAnother(body["email"], id) /\ UpdateUser(id, body, TRUE)) =>
              userResp'.status = 409 /\ users' = users

\* C18: every registration whose address another user holds, be it since
\* before the request or since a concurrent registration, and every update that
\* sets such an address, is answered 409 and leaves the user table as it was.
DuplicateEmailConflict == [][DuplicateEmailStep]_vars


\* The backend a request path belongs to by its prefix.
BackendOfPrefix(path) ==
    IF Len(path) < 2 \/ path[1] # "api" THEN ""
    ELSE IF path[2] = "users" THEN "user"
    ELSE IF path[2] = "products" THEN "product"
    ELSE IF path[2] = "orders" THEN "order"
    ELSE ""

\* C19: every request under /api/users, /api/products or /api/orders is handed
\* to the proxy of its backend, and what that backend receives has the method,
\* the path and the body the client sent (a JSON body included, although
\* express.json() has run before the proxy).
GatewayForwardsUnchanged ==
    /\ (gw.pc = "done" /\ BackendOfPrefix(gw.path) # "") => gw.attempts = 1
    /\ gw.sent # <<>> =>
          /\ gw.backend = BackendOfPrefix(gw.path)
          /\ gw.sent[1].method = gw.method
          /\ gw.sent[1].path = gw.path
          /\ gw.sent[1].body = gw.body


\* The error text that names a backend.
UnavailableText ==
    [user |-> "User service unavailable", product |-> "Product service unavailable",
     order |-> "Order service unavailable"]

\* A 503 of the gateway names the backend of the request's prefix and follows
\* the one connection attempt of the request; no request is attempted twice.
UnavailableState ==
    /\ gw.attempts <= 1
    /\ gw.status = 503 =>
          /\ gw.pc = "done"
          /\ BackendOfPrefix(gw.path) # ""
          /\ gw.error = UnavailableText[BackendOfPrefix(gw.path)]
          /\ gw.attempts = 1

\* The proxy step of a request looks at its own backend only: it answers 503
\* and sends nothing when that backend is down, and hands the request to that
\* backend when it is up, whichever other backends are down.
UnavailableStep ==
    (GwRoute /\ BackendOfPrefix(gw.path) # "") =>
        IF BackendOfPrefix(gw.path) \in down
        THEN /\ gw'.status = 503 /\ gw'.pc = "done"
             /\ gw'.error = UnavailableText[BackendOfPrefix(gw.path)]
             /\ gw'.sent = <<>>
        ELSE /\ gw'.status = 0 /\ gw'.pc \in {"upstream", "starved"}
             /\ gw'.backend = BackendOfPrefix(gw.path)
             /\ gw'.sent # <<>>

\* C20: a proxied request whose backend cannot be reached is answered 503 with
\* the error naming that backend, after a single attempt, and the other
\* backends being down or up makes no difference to it.
GatewayUnavailable == []UnavailableState /\ [][UnavailableStep]_vars

\* C20 has happened: with only the order service down, a request under
\* /api/orders has been answered 503 'Order service unavailable' after one
\* attempt.
GatewayUnavailableWitness ==
    /\ down = {"order"}
    /\ gw.pc = "done" /\ gw.status = 503
    /\ gw.error = "Order service unavailable"
    /\ gw.attempts = 1 /\ gw.sent = <<>>

(* -------------------------------- C21 ---------------------------------- *)

\* The bodies of PUT /api/orders/:id with no status or a status outside the five.
BadStatusBodies ==
    {b \in StatusBodies : "status" \notin DOMAIN b \/ b.status \notin OrderStatuses}

\* The bodies made of one of the five statuses and nothing else.
GoodStatusBodies == {[status |-> s] : s \in OrderStatuses}

StatusesValid == \A o \in DOMAIN orders : orders[o].status \in OrderStatuses

StatusRejectedStep ==
    \A id \in StatusIds, body \in BadStatusBodies, dbOk \in BOOLEAN :
        UpdateOrderStatus(id, body, dbOk) =>
            /\ orderResp'.status = 400
            /\ orders' = orders
            /\ order_items' = order_items

StatusMissingStep ==
    \A id \in StatusIds \ DOMAIN orders, body \in GoodStatusBodies :
        UpdateOrderStatus(id, body, TRUE) =>
            /\ orderResp'.status = 404
            /\ orderResp'.error = "Order not found"
            /\ orders' = orders
            /\ order_items' = order_items

\* C21: the status of every stored order is always one of pending, confirmed,
\* shipped, delivered, cancelled; a PUT /api/orders/:id with no status or a
\* status outside the five is answered 400 and changes no order, and a PUT
\* with one of the five for an id that has no order is answered 404 and
\* changes nothing.
OrderStatusChecked ==
    /\ []StatusesValid
    /\ [][StatusRejectedStep /\ StatusMissingStep]_vars

\* A refused status after a status was set and an order created: order 1 has
\* left its seed status, the new order is stored, the last PUT was answered 400.
OrderStatusCheckedWitness ==
    /\ orders[1].status = "delivered"
    /\ (MaxKey(SeedOrders) + 1) \in DOMAIN orders
    /\ orderResp.status = 400
    /\ orderResp.error = "\"status\" must be one of [pending, confirmed, shipped, delivered, cancelled]"

(* -------------------------------- C29 ---------------------------------- *)

\* A PUT with status s for order o can be taken and stores s.
StatusAccepted(o, s) ==
    /\ UpdateOrderStatus(o, [status |-> s], TRUE)
    /\ orders'[o].status = s
    /\ orderResp'.status = 200

AnyStatusFromAny ==
    \A o \in StatusIds \cap DOMAIN orders, s \in OrderStatuses : ENABLED StatusAccepted(o, s)

StatusStoredStep ==
    \A o \in StatusIds \cap DOMAIN orders, s \in OrderStatuses :
        UpdateOrderStatus(o, [status |-> s], TRUE) =>
            /\ orders'[o].status = s
            /\ orderResp'.status = 200
            /\ orderResp'.order[1].status = s

\* C29: PUT /api/orders/:id does not look at the status the order has: in
\* every reachable state, for every stored order and each of the five
\* statuses, the PUT with that status is answered 200 and stores it, so an
\* order goes from every status to every other and no status is final.
StatusUnguarded ==
    /\ []AnyStatusFromAny
    /\ [][StatusStoredStep]_vars

\* An order brought to "delivered" and another to "cancelled", each of which
\* the next PUT can put back to "pending".
StatusUnguardedWitness ==
    /\ orders[1].status = "delivered"
    /\ (MaxKey(SeedOrders) + 1) \in DOMAIN orders
    /\ orders[MaxKey(SeedOrders) + 1].status = "cancelled"
    /\ ENABLED StatusAccepted(1, "pending")
    /\ ENABLED StatusAccepted(MaxKey(SeedOrders) + 1, "pending")

(* -------------------------------- C22 ---------------------------------- *)

\* The step keeps the stored order o: its row is still there with the same
\* user and total, and its item rows are the same rows with the same contents.
OrderKept(o) ==
    /\ o \in DOMAIN orders'
    /\ orders'[o].user_id = orders[o].user_id
    /\ orders'[o].total_amount = orders[o].total_amount
    /\ {i \in DOMAIN order_items' : order_items'[i].order_id = o} = ItemsOf(o)
    /\ \A i \in ItemsOf(o) : order_items'[i] = order_items[i]

StatusOnlyStep ==
    \A id \in FrameIds, body \in FrameStatusBodies :
        UpdateOrderStatus(id, body, TRUE) =>
            /\ order_items' = order_items
            /\ DOMAIN orders' = DOMAIN orders
            /\ \A o \in DOMAIN orders : o # id => orders'[o] = orders[o]

\* C22: once an order is stored, no step of the order, product or user
\* service changes its user_id, its total_amount or its item rows (product id,
\* quantity, price, product name), and a status update changes nothing but
\* the status of the order it names.
StoredOrderFrozen ==
    [][(\A o \in DOMAIN orders : OrderKept(o)) /\ StatusOnlyStep]_vars

\* The created order after its status was updated, its product deleted and
\* its user deleted: it still carries the user, the total and the item row
\* written at creation.
StoredOrderFrozenWitness ==
    LET o == MaxKey(SeedOrders) + 1 IN
    /\ o \in DOMAIN orders
    /\ orders[o].status = "shipped"
    /\ 1 \notin DOMAIN products
    /\ 1 \notin DOMAIN users
    /\ orders[o].user_id = 1
    /\ orders[o].total_amount = 2 * SeedProducts[1].price
    /\ ItemSeq(o) = <<[order_id |-> o, product_id |-> 1, quantity |-> 2,
                        price |-> SeedProducts[1].price, product_name |-> "Laptop"]>>

(* -------------------------------- C23 ---------------------------------- *)

\* The items of an order object are the stored item rows of that order:
\* product id, quantity, price and product name of each row, in row order.
ItemsAsStored(order) ==
    /\ Len(order.items) = Len(ItemSeq(order.id))
    /\ \A n \in 1..Len(order.items) :
          /\ order.items[n].productId = ItemSeq(order.id)[n].product_id
          /\ order.items[n].quantity = ItemSeq(order.id)[n].quantity
          /\ order.items[n].price = ItemSeq(order.id)[n].price
          /\ order.items[n].productName = ItemSeq(order.id)[n].product_name

\* The items of every order object a handler has built or sent are as stored.
ReadItemsStored ==
    /\ \A r \in Requests :
          req[r].resp.status = 201 => ItemsAsStored(req[r].resp.order[1])
    /\ \A n \in 1..Len(rd.out) : ItemsAsStored(rd.out[n])
    /\ (rd.pc = "done" /\ rd.resp.status = 200) =>
          /\ rd.resp.body = rd.out
          /\ rd.kind = "one" => Len(rd.out) = 1

\* C23: the items of every order a read returns (the 201 answer of the
\* creation, GET /api/orders, GET /api/orders/:id, GET /api/orders/user/:userId)
\* carry the unit price and product name of the stored item rows, whatever the
\* product's price and name are now and whether or not the product still
\* exists, and no step changes a stored item row.
ReadsReturnStoredItems ==
    /\ []ReadItemsStored
    /\ [][\A i \in DOMAIN order_items :
             i \in DOMAIN order_items' /\ order_items'[i] = order_items[i]]_vars

\* GET /api/orders answered after the product of the orders was renamed and
\* repriced and then deleted: the seed order and the created order are
\* returned with the price and name of their item rows.
ReadsReturnStoredItemsWitness ==
    LET o == MaxKey(SeedOrders) + 1 IN
    /\ req[1].resp.status = 201
    /\ prodResp.status = 200
    /\ 1 \notin DOMAIN products
    /\ rd.pc = "done"
    /\ rd.kind = "all"
    /\ rd.resp.status = 200
    /\ Len(rd.resp.body) = 3
    /\ rd.resp.body[1].id = o
    /\ rd.resp.body[1].items[1].price = 15000
    /\ rd.resp.body[1].items[1].productName = "Gadget"
    /\ rd.resp.body[3].id = 1
    /\ rd.resp.body[3].items[1].price = SeedProducts[1].price
    /\ rd.resp.body[3].items[1].productName = "Laptop"

(* -------------------------------- C30 ---------------------------------- *)

\* The name lookup of the read in hand fails: no answer, an answer that is
\* not a 2xx with a user in it, or a 404 because the user is gone.
NameLookupFails(outcome) ==
    outcome # "answered" \/ rd.rows[rd.idx].user_id \notin DOMAIN users

\* The order object the read has just pushed.
LastPushed == rd'.out[Len(rd'.out)]

UnknownUserStep ==
    \A outcome \in Outcomes :
        (ReadUserLookup(outcome) /\ NameLookupFails(outcome)) =>
            /\ rd'.pc \in {"selectItems", "done"}
            /\ rd'.pc = "done" => rd'.resp.status = 200 /\ rd'.resp.body = rd'.out
            /\ Len(rd'.out) = Len(rd.out) + 1
            /\ LastPushed.userName = "Unknown User"
            /\ LastPushed.id = rd.rows[rd.idx].id
            /\ LastPushed.userId = rd.rows[rd.idx].user_id
            /\ LastPushed.totalAmount = rd.rows[rd.idx].total_amount
            /\ LastPushed.status = rd.rows[rd.idx].status
            /\ ItemsAsStored(LastPushed)
            /\ TablesUnchanged

\* C30: when the user lookup of GET /api/orders or GET /api/orders/:id fails
\* (404 for a deleted user, no answer, any other failure), the read goes on,
\* the order is returned with its stored data and userName "Unknown User",
\* the answer is 200, and no stored order is changed.
ReadsSurviveUserLookup ==
    /\ [][UnknownUserStep]_vars
    /\ [](rd.kind \in {"all", "one"} /\ rd.pc = "done" /\ rd.rows # <<>> /\ rd.resp.status # 200
             => rd.resp = ReadInternalError /\ Len(rd.out) < Len(rd.rows))

\* GET /api/orders/:id of the seed order of user 1 answered after user 1 was
\* deleted: 200, the stored order, "Unknown User".
ReadsSurviveUserLookupWitness ==
    /\ 1 \notin DOMAIN users
    /\ userResp.status = 200
    /\ rd.pc = "done"
    /\ rd.kind = "one"
    /\ rd.id = 1
    /\ rd.resp.status = 200
    /\ rd.resp.body[1].userName = "Unknown User"
    /\ rd.resp.body[1].userId = 1
    /\ rd.resp.body[1].totalAmount = SeedOrders[1].total_amount
    /\ Len(rd.resp.body[1].items) = 2

(* -------------------------------- C24 ---------------------------------- *)

\* Request r is waiting for the answer to an outbound call.
CallPending(r) == req[r].pc \in {"userLookup", "productLookup"}

\* Request r is between pool.connect() and the release of the connection.
InTransaction(r) == req[r].pc \in {"begin", "insertOrder", "insertItem", "commit", "rollback"}

LookupsBeforeConnection ==
    \A r \in Requests :
        /\ CallPending(r) => WroteNothing(r)
        /\ req[r].client <=> InTransaction(r)
        /\ req[r].client =>
              /\ req[r].resp = NoResp
              /\ \A n \in 1..Len(req[r].items) :
                    req[r].items[n].productId \in DOMAIN req[r].productDetails
        /\ req[r].resp.status = 400 => WroteNothing(r)

\* The connection is asked for by a handler whose last product lookup has
\* just returned a product with enough stock, and the lookups are entered
\* from the user lookup that returned the user.
LookupsBeforeConnectionStep ==
    \A r \in Requests :
        /\ (req'[r].pc = "connect" /\ req[r].pc # "connect") =>
              /\ req[r].pc = "productLookup"
              /\ req[r].idx = Len(req[r].items)
              /\ \A n \in 1..Len(req[r].items) :
                    req[r].items[n].productId \in DOMAIN req'[r].productDetails
        /\ (req'[r].pc = "productLookup" /\ req[r].pc # "productLookup") =>
              /\ req[r].pc = "userLookup"
              /\ req[r].userId \in DOMAIN users
        /\ (req'[r].client /\ ~req[r].client) => req[r].pc = "connect"
        /\ (req'[r].pc = "begin" /\ req[r].pc # "begin") => req[r].pc = "connect"

\* C24: a creation request holds a database connection only between
\* pool.connect() and the end of its transaction; the connection is asked for
\* only after the user lookup and the lookup of every line have returned
\* successfully, no connection is held while a lookup is pending, and a
\* request answered 400 has never held one.
LookupsPrecedeTransaction ==
    /\ []LookupsBeforeConnection
    /\ [][LookupsBeforeConnectionStep]_vars

\* One request inside its transaction while the other waits for a product
\* lookup without a connection.
LookupsPrecedeTransactionWitness ==
    /\ req[1].pc = "insertItem"
    /\ req[1].client
    /\ Len(req[1].items) = 2
    /\ req[2].pc = "productLookup"
    /\ req[2].idx = 2
    /\ ~req[2].client

(* -------------------------------- C25 ---------------------------------- *)

\* The place of a step of the handler in the text of the handler.
Rank(pc) ==
    CASE pc = "idle" -> 0
      [] pc = "userLookup" -> 1
      [] pc = "productLookup" -> 2
      [] pc = "connect" -> 3
      [] pc = "begin" -> 4
      [] pc = "insertOrder" -> 5
      [] pc = "insertItem" -> 6
      [] pc = "commit" -> 7
      [] pc = "rollback" -> 8
      [] pc = "done" -> 9

\* The line whose lookup request r is waiting for.
LookedUp(r) == req[r].items[req[r].idx]

SequentialStep(r) ==
    /\ req[r].pc # "done"
    /\ Rank(req'[r].pc) >= Rank(req[r].pc)
    /\ req[r].pc = "idle" =>
          /\ req'[r].pc \in {"userLookup", "done"}
          /\ req'[r].pc = "done" => req'[r].resp.status = 400 /\ req'[r].idx = 0
    /\ req[r].pc = "userLookup" =>
          /\ req'[r].pc \in {"productLookup", "done"}
          /\ req'[r].pc = "productLookup" => req'[r].idx = 1 /\ req[r].userId \in DOMAIN users
          /\ req'[r].pc = "done" =>
                /\ req'[r].idx = 0
                /\ req'[r].productDetails = <<>>
                /\ req'[r].resp \in {Answer(400, "User not found"), InternalError}
          /\ req[r].userId \notin DOMAIN users => req'[r].pc = "done"
    /\ req[r].pc = "productLookup" =>
          /\ req'[r].pc \in {"productLookup", "connect", "done"}
          /\ req'[r].pc = "productLookup" =>
                /\ req'[r].idx = req[r].idx + 1
                /\ LookedUp(r).productId \in DOMAIN req'[r].productDetails
                /\ LookedUp(r).productId \in DOMAIN products
                /\ LookedUp(r).quantity <= products[LookedUp(r).productId].stock
          /\ req'[r].pc = "connect" =>
                /\ req[r].idx = Len(req[r].items)
                /\ LookedUp(r).productId \in DOMAIN products
          /\ req'[r].pc = "done" =>
                /\ req'[r].idx = req[r].idx
                /\ req'[r].productDetails = req[r].productDetails
                /\ req'[r].resp.status \in {400, 500}
                /\ req'[r].resp.error = "Product with ID not found" =>
                      /\ req'[r].resp.id = LookedUp(r).productId
                      /\ LookedUp(r).productId \notin DOMAIN products
                /\ req'[r].resp.error = "Insufficient stock for product" =>
                      /\ req'[r].resp.requested = LookedUp(r).quantity
                      /\ req'[r].resp.available < LookedUp(r).quantity
          /\ LookedUp(r).productId \notin DOMAIN products => req'[r].pc = "done"
    /\ Rank(req'[r].pc) \in 4..8 => Rank(req[r].pc) \in 3..7

\* C25: the steps of a creation request follow the text of the handler and
\* none is taken twice: validation, one user lookup, the product lookups line
\* by line, then the transaction.  A lookup that fails ends the request at
\* once with the answer of that failure: no product lookup after a failed
\* user lookup, no lookup of a later line after a failed line.
CreationSequential ==
    [][\A r \in Requests : StepOf(r) => SequentialStep(r)]_vars

\* A request ended by the 404 of the lookup of its first line, its second line
\* never looked up, and a request ended by the 404 of the user lookup with no
\* product looked up.
CreationSequentialWitness ==
    \E r, q \in Requests :
        /\ req[r].pc = "done" /\ Len(req[r].items) = 2 /\ req[r].idx = 1
        /\ req[r].resp.error = "Product with ID not found"
        /\ req[r].productDetails = <<>>
        /\ req[q].pc = "done" /\ req[q].idx = 0
        /\ req[q].resp = Answer(400, "User not found")
        /\ req[q].productDetails = <<>>

(* -------------------------------- C28 ---------------------------------- *)

\* The product the product service returns for the line in hand.
Returned(r) == products[LookedUp(r).productId]

LineAloneStep ==
    \A r \in Requests :
        (/\ ProductLookup(r, "answered")
         /\ LookedUp(r).productId \in DOMAIN products
         /\ LookedUp(r).quantity <= Returned(r).stock) =>
            /\ req'[r].pc \in {"productLookup", "connect"}
            /\ req'[r].productDetails[LookedUp(r).productId] =
                  [price |-> Returned(r).price, name |-> Returned(r).name,
                   stock |-> Returned(r).stock]

SameProductSamePrice ==
    \A r \in Requests :
        req[r].resp.status = 201 =>
            LET k == req[r].resp.order[1].id IN
            \A n \in 1..Len(req[r].items) :
                /\ ItemSeq(k)[n].product_id = req[r].items[n].productId
                /\ ItemSeq(k)[n].quantity = req[r].items[n].quantity
                /\ ItemSeq(k)[n].price = req[r].productDetails[req[r].items[n].productId].price
                /\ ItemSeq(k)[n].product_name =
                      req[r].productDetails[req[r].items[n].productId].name

\* C28: each line is tested on its own against the stock its lookup returns:
\* a line whose quantity is within that stock passes whatever the other lines
\* of the request ask of the same product, the lookup replaces the price and
\* name kept for the product, and all stored lines of a product carry the
\* price and name of its last lookup.
StockCheckedPerLine ==
    /\ []SameProductSamePrice
    /\ [][LineAloneStep]_vars

\* An order of two lines of product 1, stored after the product was renamed,
\* repriced and restocked between the two lookups: the first line asks for
\* more than the stock the second lookup saw, and both lines carry the price
\* and name of the second lookup.
StockCheckedPerLineWitness ==
    \E r \in Requests :
        /\ req[r].resp.status = 201
        /\ Len(req[r].items) = 2
        /\ req[r].items[1].productId = req[r].items[2].productId
        /\ req[r].productDetails[1].stock = 1
        /\ req[r].items[1].quantity = 2
        /\ req[r].items[2].quantity = 1
        /\ LET k == req[r].resp.order[1].id IN
           /\ ItemSeq(k)[1].price = 15000 /\ ItemSeq(k)[1].product_name = "Gadget"
           /\ ItemSeq(k)[2].price = 15000 /\ ItemSeq(k)[2].product_name = "Gadget"
           /\ orders[k].total_amount = 3 * 15000

(* -------------------------------- C27 ---------------------------------- *)

\* The number of connections checked out of the pool by creation requests.
CheckedOut == Cardinality({r \in Requests : req[r].client})

ReleasedAtEnd ==
    /\ \A r \in Requests : req[r].pc \in {"idle", "done"} => ~req[r].client
    /\ (\A r \in Requests : req[r].pc \in {"idle", "done"}) => CheckedOut = 0

\* The connection is taken by the step that ends pool.connect(), given back by
\* the step that ends the transaction (COMMIT succeeded, or ROLLBACK returned
\* with or without an error), and a request that has ended takes no step.
ReleaseStep ==
    \A r \in Requests :
        StepOf(r) =>
            /\ req[r].pc # "done"
            /\ (req'[r].client /\ ~req[r].client) =>
                  req[r].pc = "connect" /\ req'[r].pc = "begin"
            /\ (req[r].client /\ ~req'[r].client) =>
                  req[r].pc \in {"commit", "rollback"} /\ req'[r].pc = "done"
            /\ (req[r].client /\ req'[r].pc = "done") => ~req'[r].client
            /\ (req[r].pc \in {"begin", "insertOrder", "insertItem"} /\ req'[r].caught = "db") =>
                  req'[r].pc = "rollback" /\ req'[r].client
            /\ (req[r].pc = "commit" /\ req'[r].pc # "done") =>
                  req'[r].pc = "rollback" /\ req'[r].client

\* C27: a creation request that has got a connection gives it back exactly
\* once, at the step that ends it, on every path (COMMIT succeeded; a failed
\* BEGIN, INSERT or COMMIT followed by ROLLBACK; ROLLBACK itself failing);
\* when no request is under way no connection is checked out.
ConnectionReleased ==
    /\ []ReleasedAtEnd
    /\ [][ReleaseStep]_vars

\* Both requests have ended, one by its COMMIT, the other by a ROLLBACK after
\* its order row was inserted: no connection is checked out.
ConnectionReleasedWitness ==
    \E r, q \in Requests :
        /\ req[r].pc = "done" /\ req[r].resp.status = 201
        /\ req[q].pc = "done" /\ req[q].resp = InternalError
        /\ req[q].caught = "db" /\ req[q].order # <<>>
        /\ CheckedOut = 0

(* -------------------------------- C26 ---------------------------------- *)

\* While a lookup is pending the request has answered nothing and written
\* nothing; a request has an answer exactly when it has ended, and the answer
\* is 201, 400 or 500.
PendingIsSilent ==
    \A r \in Requests :
        /\ CallPending(r) => req[r].resp = NoResp /\ WroteNothing(r)
        /\ req[r].pc = "done" <=> req[r].resp # NoResp
        /\ req[r].pc = "done" => req[r].resp.status \in {201, 400, 500}

\* A pending lookup ends by its return and by nothing else, and an answer
\* once sent is the only one.
OnlyReturnEndsWait ==
    \A r \in Requests :
        /\ (CallPending(r) /\ StepOf(r)) =>
              \E outcome \in Outcomes : UserLookup(r, outcome) \/ ProductLookup(r, outcome)
        /\ req[r].resp # NoResp => req'[r] = req[r]

\* C26: the handler has no timeout.  A request waits for a lookup until the
\* lookup returns, and has answered and stored nothing while it waits; when
\* every outbound call and every database call returns, every request that
\* was received ends, with one answer, which is 201, 400 or 500.
CreationEndsWhenCallsReturn ==
    /\ []PendingIsSilent
    /\ [][OnlyReturnEndsWait]_vars
    /\ \A r \in Requests : (req[r].pc # "idle") ~> (req[r].pc = "done")

\* One request still waits for its user lookup, without an answer, after the
\* other one has gone through all its calls and was answered 201.
CreationEndsWitness ==
    /\ req[1].pc = "userLookup"
    /\ req[1].resp = NoResp
    /\ req[2].pc = "done"
    /\ req[2].resp.status = 201
    /\ PostOrders # {}

====
